---------------------------- MODULE Spec2Model ----------------------------
(***************************************************************************)
(* Session lifecycle of the kiosk client (xtreme-client-app).              *)
(*                                                                         *)
(* The model follows the React components SessionStateManager and          *)
(* SessionManager (src/unnamed/part_006), the App shell with its kiosk     *)
(* lock (src/unnamed/part_002), the token watcher DeviceTokenMonitor       *)
(* (src/unnamed/part_003, src/unnamed/part_005) and the hooks              *)
(* useCollection and useRealtimePb (src/src/hooks/useCollection.js,        *)
(* src/src/hooks/useRealtimePb.js).                                        *)
(* Every asynchronous handler is a                                         *)
(* process whose steps are the stretches of code between two awaits; a     *)
(* step performs the awaited store call and the synchronous code that      *)
(* follows it.  A handler reads React state from the closure it was        *)
(* created in, so a process carries a snapshot of the state it started     *)
(* from; setState calls act on the live component state.                   *)
(*                                                                         *)
(* Time is counted in units of 30 seconds.  Money is an integer; all       *)
(* session spans that occur are whole hours, so hourly prices multiply     *)
(* exactly.                                                                *)
(***************************************************************************)
EXTENDS Integers, Sequences, FiniteSets, TLC

\* ------------------------------------------------------------------ bounds
MaxTicks == 2        \* close flows started by updateRemainingTime
MaxInits == 3        \* runs of the initSession effect
MaxPolls == 1        \* runs of checkForActiveSessions
MaxLogins == 1       \* handleLogin calls
MaxLogouts == 1      \* clicks on Logout
MaxExtends == 1      \* clicks on Extend Session
MaxFailures == 1     \* store calls that are rejected
MaxKioskEvents == 2  \* enable-kiosk-mode events of other collaborators
MaxChecks == 3       \* calls of DeviceTokenMonitor.checkDeviceTokenAndLogin
MaxTokenWrites == 2  \* times the device's token is replaced from outside
MaxRenders == 2      \* renders of App that hand the watcher a new onAutoLogin
MaxShots == 3        \* calls of ScreenshotMonitor's poll or takeScreenshot
MaxRequests == 2     \* times take_screenshot is set on the device from outside
MaxShotClock == 5    \* seconds the screenshot clock runs for
MaxKioskCalls == 3   \* calls of enableKioskMode and disableKioskMode followed await by await
MaxSessions == 3     \* records the sessions collection grows to by other clients

\* --------------------------------------------------------------- constants
OneMinute == 2
OneHour == 60 * OneMinute
FiveMinutes == 5 * OneMinute
DayLen == 24 * OneHour
DaysPerMonth == 30
MonthsPerYear == 12

LocalDevice == "d1"
OtherDevice == "d2"
Devices == {LocalDevice, OtherDevice}
NoDevice == ""
NoId == 0
NoTime == 0
NoUser == ""
User == "u1"

OpenStatuses == {"Booked", "Active", "Occupied", "Extended"}

\* The instants at which the clock is observed.  Day 1 starts at DayLen.
Times == {DayLen - 80, DayLen - 31, DayLen - 21, DayLen - 19, DayLen + 10,
          DayLen + 101}

\* ---------------------------------------------------------- remote store
\* groups: the rate group of a device and its hourly price
DeviceGroup == [d \in Devices |-> "g1"]
GroupPrice == [g \in {"g1"} |-> 100]

\* happy_hours: discount windows in query order; times are minutes of the day
HappyHours ==
  << [group |-> "g1", status |-> "Active", days |-> 1, start_time |-> 0,
      end_time |-> 30, discount_percentage |-> 20, fixed_rate |-> 0] >>

\* ------------------------------------------------------------ auth tokens
\* A token is named by a string; TokenInfo says what its text holds: the
\* number of dot-separated segments, whether the payload segment decodes
\* ("json": an object with entries, "empty": {}, "garbled": atob or
\* JSON.parse throws), the payload's exp (NoTime: none) and the user-id
\* claims id, sub, user_id and userId ("": absent).
Staff == "u2"
Stranger == "u9"
ClientsCollection == {User}      \* ids of collection 'clients'
UsersCollection == {Staff}       \* ids of collection 'users'
MonitorTime == DayLen - 19       \* the instant the token scenarios run at
NoClaims == [id |-> "", sub |-> "", user_id |-> "", userId |-> ""]
Payload(segments, payload, exp, claims) ==
  [segments |-> segments, payload |-> payload, exp |-> exp, claims |-> claims]
NoToken == ""
LoginToken == "login"            \* the token Login.jsx obtains with a password
DeviceTokens ==
  {"tok", "tok_sub", "tok_noid", "tok_blank", "tok_edge", "tok_old",
   "tok_two", "tok_junk", "tok_stranger"}
TokenInfo ==
  [tok \in DeviceTokens \cup {LoginToken} |->
     CASE tok = "tok_sub" -> Payload(3, "json", 3 * DayLen, [NoClaims EXCEPT !.sub = Staff])
       [] tok = "tok_noid" -> Payload(3, "json", NoTime, NoClaims)
       [] tok = "tok_blank" -> Payload(3, "empty", NoTime, NoClaims)
       [] tok = "tok_edge" -> Payload(3, "json", MonitorTime, [NoClaims EXCEPT !.userId = User])
       [] tok = "tok_old" -> Payload(3, "json", 1, [NoClaims EXCEPT !.id = User])
       [] tok = "tok_two" -> Payload(2, "json", NoTime, [NoClaims EXCEPT !.id = User])
       [] tok = "tok_junk" -> Payload(3, "garbled", NoTime, NoClaims)
       [] tok = "tok_stranger" -> Payload(3, "json", NoTime, [NoClaims EXCEPT !.user_id = Stranger])
       [] OTHER -> Payload(3, "json", NoTime, [NoClaims EXCEPT !.id = User])]

\* pbclient.validateToken: three segments, a payload that decodes, and no
\* exp that lies before the current second
validateToken(token, t) ==
  /\ token # NoToken
  /\ TokenInfo[token].segments = 3
  /\ TokenInfo[token].payload # "garbled"
  /\ ~(TokenInfo[token].exp # NoTime /\ TokenInfo[token].exp < t)

\* pbclient.authStore: the token and the record saved with it.  isValid is
\* the store's own test (PocketBase SDK): the payload has entries and no exp
\* that has been reached.
NoAuth == [token |-> NoToken, model |-> NoUser]
SavedAuth(token, model) == [token |-> token, model |-> model]
isValid(a, t) ==
  /\ a.token # NoToken
  /\ TokenInfo[a.token].payload = "json"
  /\ TokenInfo[a.token].exp = NoTime \/ TokenInfo[a.token].exp > t

\* tokenData.id || tokenData.sub || tokenData.user_id || tokenData.userId
TokenUserId(token) ==
  LET c == TokenInfo[token].claims
  IN IF c.id # "" THEN c.id
     ELSE IF c.sub # "" THEN c.sub
     ELSE IF c.user_id # "" THEN c.user_id
     ELSE c.userId


VARIABLES
  now,            \* the wall clock, new Date()
  sessions,       \* collection 'sessions', in creation order; the id is the index
  logs,           \* collection 'session_logs', in creation order
  devices,        \* collection 'devices'
  app,            \* App state: isLoggedIn, userId, hasActiveSession, activeSessionData
  ls,             \* localStorage: user_login_info, client_app_login
  authStore,      \* pbclient.authStore: token and record
  monitor,        \* DeviceTokenMonitor state and its token checks in flight
  shot,           \* ScreenshotMonitor state, its calls in flight, the device's take_screenshot
  sm,             \* SessionManager state (one mounted instance at a time)
  tick,           \* close flows of updateRemainingTime that are in flight
  init,           \* runs of the initSession effect
  poll,           \* the run of checkForActiveSessions
  login,          \* the run of handleLogin
  logout,         \* the run of the Logout onClick handler
  ext,            \* the run of extendSession
  initPending,    \* the initSession effect has to run (a dependency changed)
  logoutTimers,   \* pending 5-second auto-logout timers
  reloadTimers,   \* pending 1-second window.location.reload timers
  failures,       \* store calls rejected so far
  hist            \* history of what was written and shown (observation only)

vars == << now, sessions, logs, devices, app, ls, authStore, monitor, shot, sm, tick,
           init, poll, login, logout, ext, initPending, logoutTimers, reloadTimers,
           failures, hist >>

\* ------------------------------------------------------------ Date helpers
getDate(t) == ((t \div DayLen) % DaysPerMonth) + 1
getMonth(t) == ((t \div DayLen) \div DaysPerMonth) % MonthsPerYear
getFullYear(t) == ((t \div DayLen) \div DaysPerMonth) \div MonthsPerYear
getDay(t) == (t \div DayLen) % 7
minuteOfDay(t) == (t % DayLen) \div OneMinute

\* (the comparison without the years)
isYesterdayWithinYear(t, end) ==
  \/ getDate(t) > getDate(end)
  \/ getMonth(t) > getMonth(end)

\* "gone into yesterday", as updateRemainingTime and initSession compute it
isYesterday(t, end) ==
  \/ getDate(t) > getDate(end)
  \/ getMonth(t) > getMonth(end)
  \/ getFullYear(t) > getFullYear(end)

SameCalendarDay(t, u) == (t \div DayLen) = (u \div DayLen)

\* ------------------------------------------------------- session records
Session(dev, st, inT, outT, total) ==
  [device |-> dev, status |-> st, in_time |-> inT, out_time |-> outT,
   duration |-> (outT - inT) \div OneMinute,
   session_total |-> total, total_amount |-> total, amount_paid |-> 0,
   discount_amount |-> 0, discount_rate |-> 0]

\* a session as a handler holds it: the record together with its id
Snap(id) == [id |-> id, rec |-> sessions[id]]
NoSnap == [id |-> NoId, rec |-> Session(NoDevice, "", NoTime, NoTime, 0)]

SessionIds == 1 .. Len(sessions)

\* the filter used throughout:
\* device = "<id>" && (status = Booked || Active || Occupied || Extended)
OpenFor(dev) ==
  {i \in SessionIds : sessions[i].device = dev /\ sessions[i].status \in OpenStatuses}

MaxOf(S) == CHOOSE m \in S : \A x \in S : x <= m

\* pbclient getList(1, 1, {filter, sort: '-created'}) with the device filter
ListOpen(dev) == IF OpenFor(dev) = {} THEN NoId ELSE MaxOf(OpenFor(dev))


\* useCollection(...).getList(options): the hook takes ONE options object and
\* destructures page, perPage, sort, filter from it with defaults.  'options'
\* is [object, filter]: object = FALSE stands for a call whose first
\* positional argument is a number, so every field takes its default and
\* the filter is ''.  A rejected call yields [].  The result lists ids,
\* newest first (sort '-created').
Newest(S) ==
  LET RECURSIVE Desc(_)
      Desc(T) == IF T = {} THEN << >> ELSE << MaxOf(T) >> \o Desc(T \ {MaxOf(T)})
  IN Desc(S)

getList(options, ok) ==
  LET filter == IF options.object THEN options.filter ELSE NoDevice
      match == IF filter = NoDevice THEN SessionIds ELSE OpenFor(filter)
  IN IF ok THEN Newest(match) ELSE << >>

\* ------------------------------------------------------ Pricing Resolver
ZeroCost ==
  [baseCost |-> 0, finalCost |-> 0, discountRate |-> 0, discountAmount |-> 0,
   happyHourApplied |-> FALSE]

\* a calculation that takes the duration as it is given
ValidDurationUnchecked(dur) == dur

\* "if (isNaN(validDuration) || validDuration <= 0) validDuration = 1"; the
\* durations passed are numbers, in time units (OneHour = 1.0)
ValidDuration(dur) == IF dur <= 0 THEN OneHour ELSE dur

\* the result when no discount is applied
Undiscounted(baseCost) ==
  [baseCost |-> baseCost, finalCost |-> baseCost, discountRate |-> 0,
   discountAmount |-> 0, happyHourApplied |-> FALSE]

\* a calculation that takes discount_percentage for an amount of money
PercentageAsAmount(baseCost, h) ==
  [baseCost |-> baseCost, finalCost |-> baseCost - h.discount_percentage,
   discountRate |-> h.discount_percentage,
   discountAmount |-> h.discount_percentage, happyHourApplied |-> TRUE]

\* the branch of a window with a positive discount_percentage
PercentageDiscount(baseCost, h) ==
  LET discountAmount == (baseCost * h.discount_percentage) \div 100
  IN [baseCost |-> baseCost, finalCost |-> baseCost - discountAmount,
      discountRate |-> h.discount_percentage,
      discountAmount |-> discountAmount, happyHourApplied |-> TRUE]

\* a calculation that charges fixed_rate once, whatever the duration
FixedRatePerSession(baseCost, h, validDuration) ==
  LET finalCost == h.fixed_rate
      discountAmount == baseCost - finalCost
  IN [baseCost |-> baseCost, finalCost |-> finalCost,
      discountRate |-> IF baseCost > 0 THEN (discountAmount * 100) \div baseCost ELSE 0,
      discountAmount |-> discountAmount, happyHourApplied |-> TRUE]

\* the branch of a window with a positive fixed_rate
FixedRateDiscount(baseCost, h, validDuration) ==
  LET finalCost == (h.fixed_rate * validDuration) \div OneHour
      discountAmount == baseCost - finalCost
  IN [baseCost |-> baseCost, finalCost |-> finalCost,
      discountRate |-> IF baseCost > 0 THEN (discountAmount * 100) \div baseCost ELSE 0,
      discountAmount |-> discountAmount, happyHourApplied |-> TRUE]

\* a loop that lets every matching window overwrite the one before it
LastMatch(hits) == CHOOSE i \in hits : \A j \in hits : j <= i

\* "for (const happyHour of happyHours.items) { if (in range) { ...; break } }":
\* the index of the window the loop stops at
FirstMatch(hits) == CHOOSE i \in hits : \A j \in hits : i <= j

\* The cost of a group with hourly price 'price' at clock t, with 'windows'
\* the happy_hours collection in query order: the query keeps the windows of
\* the group that are Active on the weekday of t, the loop applies the first
\* one whose range holds the time of t and stops.  hhOk = FALSE: the
\* happy_hours query is rejected and the error is caught.  Window times have
\* the format the clock is formatted to, so they are compared as minutes.
calculateCost(price, dur, windows, group, t, hhOk) ==
  LET hourlyRate == price
      validDuration == ValidDuration(dur)
      baseCost == (hourlyRate * validDuration) \div OneHour
      currentDay == getDay(t)
      currentTime == minuteOfDay(t)
      items == SelectSeq(windows, LAMBDA h :
                 h.group = group /\ h.status = "Active" /\ h.days = currentDay)
      hits == {i \in 1 .. Len(items) :
                 currentTime >= items[i].start_time /\ currentTime <= items[i].end_time}
  IN IF hourlyRate = 0 THEN ZeroCost
     ELSE IF ~hhOk \/ hits = {} THEN Undiscounted(baseCost)
     ELSE
       LET h == items[FirstMatch(hits)]
       IN IF h.discount_percentage > 0 THEN PercentageDiscount(baseCost, h)
          ELSE IF h.fixed_rate > 0 THEN FixedRateDiscount(baseCost, h, validDuration)
          ELSE Undiscounted(baseCost)

\* "if (!deviceId) return 0": the number 0, which has none of the fields of
\* a cost result
NumberZero == [number |-> 0]

\* a device record without a group
NoGroup == ""

\* The body of fetchDeviceGroupAndCalculateCost for a store in which the
\* device has rate group 'group', the group the hourly price 'price' (0: no
\* price) and happy_hours holds 'windows'.  'res' is the outcome of the
\* store: "ok", "fail" (devices.getOne or groups.getOne rejected, caught by
\* the outer try) or "hh_fail" (the happy_hours query rejected, caught by
\* the inner try).
fetchAndCalculate(deviceId, group, price, dur, windows, t, res) ==
  IF deviceId = NoDevice THEN NumberZero
  ELSE IF res = "fail" \/ group = NoGroup THEN ZeroCost
  ELSE calculateCost(price, dur, windows, group, t, res # "hh_fail")

\* fetchDeviceGroupAndCalculateCost(deviceId, durationHours) evaluated at
\* clock t.  'dur' is the duration in time units (OneHour = 1.0).  'res' is
\* the outcome of the store: "ok", "fail" (device or group lookup rejected)
\* or "hh_fail" (the happy_hours query rejected).
fetchDeviceGroupAndCalculateCost(deviceId, dur, t, res) ==
  IF deviceId = NoDevice THEN NumberZero
  ELSE fetchAndCalculate(deviceId, DeviceGroup[deviceId],
                         GroupPrice[DeviceGroup[deviceId]], dur, HappyHours, t, res)

\* the duration a handler passes for a stored session: duration (minutes)
\* when present, else out_time - in_time
StoredDuration(rec) ==
  IF rec.duration # 0 THEN rec.duration * OneMinute
  ELSE IF rec.in_time # NoTime /\ rec.out_time # NoTime THEN rec.out_time - rec.in_time
  ELSE OneHour

\* ------------------------------------------------- SessionManager state
\* sessionData, rtPending, subscribed and rtLast are the state of
\* useRealtimePb('sessions', filter): the data it returns, the filters of the
\* getFullList calls in flight (NoId is the empty filter), whether the
\* subscription is set up, and the records as the last events delivered them
FreshSM(g) ==
  [mounted |-> FALSE, gen |-> g, sessionId |-> NoId, inTime |-> NoTime,
   outTime |-> NoTime, isSessionActive |-> FALSE, notificationShown |-> FALSE,
   deviceInfo |-> NoDevice, sessionCost |-> 0, loading |-> TRUE,
   fetching |-> NoDevice, sessionData |-> << >>, rtPending |-> {},
   subscribed |-> FALSE, rtLast |-> << >>]

\* the first render: the hook's effect calls fetchInitialData with the filter
\* of a null sessionId, ''
MountedSM(g) == [FreshSM(g) EXCEPT !.mounted = TRUE, !.rtPending = {NoId}]

\* the effect on [sessionData, deviceInfo]
RealtimeEffect(s) ==
  IF Len(s.sessionData) = 0 THEN s
  ELSE LET session == s.sessionData[1].rec
       IN [s EXCEPT !.inTime = session.in_time,
                    !.outTime = session.out_time,
                    !.isSessionActive = (session.status = "Active"),
                    !.fetching = IF session.device # NoDevice /\ s.deviceInfo = NoDevice
                                 THEN session.device ELSE @]

\* the effect on [sessionDataProp, activeSession, deviceInfo]
PropsEffect(s, a) ==
  IF a.activeSessionData.id = NoId THEN s
  ELSE LET prop == a.activeSessionData.rec
       IN [s EXCEPT !.inTime = IF prop.in_time # NoTime THEN prop.in_time ELSE @,
                    !.outTime = IF prop.out_time # NoTime THEN prop.out_time ELSE @,
                    !.isSessionActive = a.hasActiveSession,
                    !.fetching = IF prop.device # NoDevice /\ s.deviceInfo = NoDevice
                                 THEN prop.device ELSE @]

\* setSessionId changed the filter of the realtime hook: its effect
\* unsubscribes and calls fetchInitialData with the new filter
Refilter(s) ==
  IF s.mounted /\ s.sessionId # sm.sessionId
  THEN [s EXCEPT !.rtPending = @ \cup {s.sessionId}, !.subscribed = FALSE]
  ELSE s

\* a run of the initSession effect is left
HasFreeInit == \E i \in DOMAIN init : init[i].pc = "idle"

\* A render: s2 and a2 are the component and App state after the handler's
\* setState calls; propNew tells that setActiveSessionData got a session
\* object, devSet that setDeviceInfo was called, dataSet that the realtime
\* hook set its data.  The effects whose dependencies changed run: the
\* realtime effect and the props effect at once, in the order of their
\* definition, the initSession effect as the next step (initPending).  A
\* change of sessionId changes the hook's filter: its effect unsubscribes
\* and fetches with the new filter.  A step that would start a run of
\* initSession beyond MaxInits is not taken.
CommitAll(s2, a2, propNew, devSet, dataSet) ==
  LET propChanged == propNew \/ a2.activeSessionData # app.activeSessionData
      activeChanged == a2.hasActiveSession # app.hasActiveSession
      fresh == ~sm.mounted \/ sm.gen # s2.gen
      s1 == IF s2.mounted /\ (dataSet \/ devSet) THEN RealtimeEffect(s2) ELSE s2
      s3 == IF s1.mounted /\ (propChanged \/ activeChanged \/ devSet \/ ~sm.mounted)
            THEN PropsEffect(s1, a2) ELSE s1
      s4 == IF fresh THEN s3 ELSE Refilter(s3)
      deps == \/ fresh
              \/ propChanged \/ activeChanged
              \/ a2.userId # app.userId
              \/ s4.notificationShown # sm.notificationShown
  IN /\ (s4.mounted /\ deps) => HasFreeInit
     /\ sm' = s4
     /\ app' = a2
     /\ initPending' = (initPending \/ (s4.mounted /\ deps))

Commit(s2, a2, propNew, devSet) == CommitAll(s2, a2, propNew, devSet, FALSE)

\* a handler started by component instance g still acts on the live state
Live(g) == sm.mounted /\ sm.gen = g

\* ---------------------------------------------------------------- history
\* the number of entries of a sequence that equal x
Occurrences(seq, x) == Cardinality({i \in 1 .. Len(seq) : seq[i] = x})

Count(seq, P(_)) == Cardinality({i \in 1 .. Len(seq) : P(seq[i])})

\* a cost calculation: its inputs and its result
NoQuote ==
  [asked |-> FALSE, deviceId |-> NoDevice, group |-> NoGroup, price |-> 0, dur |-> 0,
   windows |-> << >>, t |-> NoTime, hhOk |-> TRUE, res |-> "ok", result |-> ZeroCost]

EmptyHist ==
  [closedWrites |-> << >>,   \* <<session id, writer>> of every update to Closed
   activeWrites |-> {},      \* [writer, read, stored, valid] of every update to Active
   ended |-> << >>,          \* <<session id, outTime>> of every 'ended ... log you out' notification
   timers |-> << >>,         \* <<session id, outTime>> of every auto-logout timer scheduled
   soon |-> {},              \* remaining time at every 'will end in N minutes' notification
   expired |-> {},           \* <<session id, outTime>> a tick found out of time
   window |-> {},            \* remaining times in (0, 5 min] that a tick found
   sameDaySeen |-> {},       \* components that examined a same-day expiry
   autoLogouts |-> 0,        \* auto-logout timers that fired
   kioskRequests |-> 0,      \* enable-kiosk-mode events dispatched by the session code
   sameDayClose |-> {},      \* writers that closed / logged / released on a same-day expiry
   found |-> {},             \* [id, device, status] returned by checkExistingSession
   creations |-> {},         \* [open, user, called] at every decision on createSession
  created |-> {},           \* [id, rec, devFailed] of every session createSession stored
   reconciled |-> {},        \* [by, before, at, after]: what a trigger made of an expired session
   extended |-> << >>,       \* session id of every extendSession call whose writes succeeded
   afterRejected |-> {},     \* what a flow did after its session update was rejected
   lockRequests |-> {},      \* [force, locked] of every enable-kiosk-mode event of a collaborator
   tokenWrites |-> 0,        \* times the device's token was replaced from outside
   shots |-> {},             \* [start, failed, resetOk, flagAfter] of every capture attempt that ended
   shotStarts |-> << >>,     \* the time of every capture attempt that passed the cooldown test
   requests |-> 0,           \* times take_screenshot was set from outside
   expiry |-> [asked |-> FALSE, t |-> NoTime, end |-> NoTime, isYesterday |-> FALSE],
                             \* the expiry classification asked for on its own
   kioskCalls |-> << >>,     \* the kiosk calls followed await by await, in the order of their start
   tokenRead |-> 0,          \* the token write the watcher's last devices.getOne came after
   renders |-> 0,            \* renders of App that gave the watcher a new onAutoLogin
   autoLogins |-> << >>,     \* [token, last, valid, epoch, userId, by] of every onAutoLogin call
   failedChecks |-> {},      \* [token, reason, before, after, alone] of every failed token check
   quote |-> NoQuote]        \* the cost calculation asked for on its own


\* ---------------------------------------------------------------- processes
TickIds == 1 .. MaxTicks
InitIds == 1 .. MaxInits

IdleTick ==
  [pc |-> "idle", gen |-> 0, sid |-> NoId, dev |-> NoDevice, infoDev |-> NoDevice,
   inT |-> NoTime, outT |-> NoTime, shown |-> FALSE, cost |-> 0, disc |-> 0, rate |-> 0,
   rejected |-> FALSE]
DoneTick == [IdleTick EXCEPT !.pc = "done"]

IdleInit ==
  [pc |-> "idle", gen |-> 0, userId |-> NoUser, shown |-> FALSE, sessCost |-> 0,
   s |-> NoSnap, nowRead |-> NoTime, dev |-> NoDevice, cost |-> ZeroCost,
   devFailed |-> FALSE]
DoneInit == [IdleInit EXCEPT !.pc = "done"]

IdlePoll ==
  [pc |-> "idle", runs |-> 0, isClientApp |-> FALSE, isLoggedIn |-> FALSE,
   s |-> NoSnap, status |-> ""]
IdleLogin == [pc |-> "idle", runs |-> 0, isClientAppLogin |-> FALSE]
IdleLogout == [pc |-> "idle", runs |-> 0, s |-> NoSnap]
IdleExt ==
  [pc |-> "idle", runs |-> 0, gen |-> 0, sid |-> NoId, newOut |-> NoTime,
   dur |-> 0, infoDev |-> NoDevice, cost |-> 0, disc |-> 0, rate |-> 0,
   rejected |-> FALSE]

\* one call of DeviceTokenMonitor.checkDeviceTokenAndLogin: last is the
\* lastCheckedToken of the render its closure comes from, token the token
\* read from the device, at and epoch the time and the token write it was
\* read at, before and mine the auth store before and after the call's own
\* save, path the branch taken on authStore.isValid
CheckIds == 1 .. MaxChecks
IdleCheck ==
  [pc |-> "idle", by |-> "", last |-> NoToken, token |-> NoToken, at |-> NoTime,
   epoch |-> 0, userId |-> NoUser, path |-> "", before |-> NoAuth, mine |-> NoAuth]
DoneCheck == [IdleCheck EXCEPT !.pc = "done"]

\* DeviceTokenMonitor after its first render and effect: isMonitoring is set,
\* the subscription and the interval exist and the initial check is under
\* way, all with the lastCheckedToken '' of the first render
MountedMonitor ==
  [isMonitoring |-> TRUE, lastCheckedToken |-> NoToken, closure |-> NoToken,
   checks |-> [i \in CheckIds |->
                 IF i = 1 THEN [IdleCheck EXCEPT !.pc = "getOne", !.by = "initial"]
                 ELSE IdleCheck]]

\* ScreenshotMonitor.  time is Date.now() in seconds, flag the
\* take_screenshot field of the local device record, data the take_screenshot
\* of deviceData[0] as the realtime hook returns it ("none": no data yet),
\* pollClosure the lastScreenshotTime the poll effect's
\* checkScreenshotRequested was made with.  A call carries the
\* lastScreenshotTime of its closure and the time its capture started.
SCREENSHOT_COOLDOWN == 5
ShotEpoch == 100
ShotIds == 1 .. MaxShots
IdleShotCall == [pc |-> "idle", last |-> 0, start |-> 0]
DoneShotCall == [IdleShotCall EXCEPT !.pc = "done"]
FreshShot ==
  [mounted |-> FALSE, lastScreenshotTime |-> 0, time |-> ShotEpoch, flag |-> FALSE,
   data |-> "none", fetching |-> FALSE, polling |-> FALSE, pollClosure |-> 0,
   calls |-> [i \in ShotIds |-> IdleShotCall]]

\* the first unused slot of a process table (slots are used once, in order)
FreeSlot(tab, ids) ==
  IF \E i \in ids : tab[i].pc = "idle"
  THEN CHOOSE i \in ids : tab[i].pc = "idle" /\ \A j \in ids : j < i => tab[j].pc # "idle"
  ELSE 0

\* outcome of one store call: it succeeds, or is rejected (at most MaxFailures times)
Outcomes == {ok \in BOOLEAN : ok \/ failures < MaxFailures}
CostOutcomes == {r \in {"ok", "fail", "hh_fail"} : r = "ok" \/ failures < MaxFailures}
Charge(ok) == failures' = IF ok THEN failures ELSE failures + 1

\* a same-day expiry: out_time has passed and lies on the calendar day of t
ExpiredSameDay(rec, t) ==
  rec.out_time # NoTime /\ rec.out_time <= t /\ SameCalendarDay(rec.out_time, t)

\* ------------------------------------------------- App: the kiosk lock
\* The fields of app that hold the lock: isKioskMode (React state),
\* fullScreen (the window is the borderless, always-on-top, full-screen one),
\* keyboardHandler (the ref holds a handler) and keydownHandlers (the number
\* of key-blocking listeners registered on the document); size is the frame
\* the last setSize gave the window ("screen": the size of the screen,
\* borderless, always on top; "fixed": 600x800 with a window bar) and calls
\* are the enableKioskMode and disableKioskMode calls followed await by
\* await.  The calls of the window API are taken to succeed.  The operators
\* below are a call that runs from its start to its end with no other
\* call in between, as one step of the handler that awaits it.
KioskCallIds == 1 .. MaxKioskCalls
IdleKioskCall == [kind |-> "", pc |-> "idle", status |-> FALSE]

\* an enableKioskMode that registers its handler without looking at the ref
enableKioskModeUnguarded(a) ==
  [a EXCEPT !.fullScreen = TRUE, !.size = "screen", !.isKioskMode = TRUE,
            !.keydownHandlers = @ + 1, !.keyboardHandler = TRUE]

\* enableKioskMode(): setSize, setFullScreen, setIsKioskMode(isFullScreen()),
\* and the keydown handler unless the ref holds one
enableKioskMode(a) ==
  [a EXCEPT !.fullScreen = TRUE, !.size = "screen", !.isKioskMode = TRUE,
            !.keydownHandlers = IF a.keyboardHandler THEN @ ELSE @ + 1,
            !.keyboardHandler = TRUE]

\* disableKioskMode(): exitFullScreen, setSize(600x800), the handler of the
\* ref removed, setIsKioskMode(false)
disableKioskMode(a) ==
  [a EXCEPT !.fullScreen = FALSE, !.size = "fixed", !.isKioskMode = FALSE,
            !.keydownHandlers = IF a.keyboardHandler THEN @ - 1 ELSE @,
            !.keyboardHandler = FALSE]

\* the listener of 'enable-kiosk-mode'.  With force it calls
\* enableKioskMode() without awaiting it, repeats the window calls, sets
\* isKioskMode, removes the handler of the ref and registers a new one; the
\* rest of enableKioskMode then finds the ref set.
handleKioskModeEvent(a, force) ==
  IF force
  THEN enableKioskMode(
         [a EXCEPT !.fullScreen = TRUE, !.size = "screen", !.isKioskMode = TRUE,
                   !.keydownHandlers = (IF a.keyboardHandler THEN @ - 1 ELSE @) + 1,
                   !.keyboardHandler = TRUE])
  ELSE enableKioskMode(a)

\* handleSessionStateChange(isActive, sessionData) of the render whose
\* isLoggedIn is 'isLoggedIn'
handleSessionStateChange(a, isLoggedIn, isActive, snap) ==
  LET a1 == [a EXCEPT !.hasActiveSession = isActive, !.activeSessionData = snap]
  IN IF isActive /\ isLoggedIn THEN disableKioskMode(a1)
     ELSE IF ~isActive THEN enableKioskMode(a1)
     ELSE a1

\* the terminal is locked: the window is the kiosk one and the key-blocking
\* handler is registered
Locked(a) == a.fullScreen /\ a.keydownHandlers > 0

\* window.dispatchEvent(new CustomEvent('enable-kiosk-mode', {detail:
\* {reason, force}})) by any collaborator: the listener runs at once
KioskEvent(force) ==
  /\ ~initPending
  /\ app.listening
  /\ Cardinality(hist.lockRequests) < MaxKioskEvents
  /\ app' = handleKioskModeEvent(app, force)
  /\ hist' = [hist EXCEPT !.lockRequests =
                @ \cup {[force |-> force, locked |-> Locked(app)]}]
  /\ UNCHANGED << now, sessions, logs, devices, ls, authStore, monitor, shot, sm, tick, init,
                  poll, login, logout, ext, initPending, logoutTimers, reloadTimers,
                  failures >>

\* ---------------------------------- the kiosk calls, await by await
\* A window call takes effect when it is issued (the window process serves
\* the calls in the order it gets them) and the function goes on at some
\* later step.  KioskCall is the call of the function and its code up to
\* the first await; KioskStep is the code from one await to the next.
KioskCall(i, kind) ==
  /\ ~initPending
  /\ app.calls[i].pc = "idle"
  /\ \A j \in KioskCallIds : j < i => app.calls[j].pc # "idle"
  /\ app' = IF kind = "enable"
            THEN \* await neuWindow.setSize({screen size, borderless, alwaysOnTop})
                 [app EXCEPT !.size = "screen",
                             !.calls[i] = [kind |-> kind, pc |-> "setFullScreen",
                                           status |-> FALSE]]
            ELSE \* const isFullScreen = await neuWindow.isFullScreen()
                 [app EXCEPT !.calls[i] = [kind |-> kind, pc |-> "exitFullScreen",
                                           status |-> app.fullScreen]]
  /\ hist' = [hist EXCEPT !.kioskCalls = Append(@, kind)]
  /\ UNCHANGED << now, sessions, logs, devices, ls, authStore, monitor, shot, sm, tick,
                  init, poll, login, logout, ext, initPending, logoutTimers,
                  reloadTimers, failures >>

\* enableKioskMode from its second await on
enableStep(a, i) ==
  LET c == a.calls[i]
  IN CASE c.pc = "setFullScreen" ->     \* await neuWindow.setFullScreen()
            [a EXCEPT !.fullScreen = TRUE, !.calls[i].pc = "isFullScreen"]
       [] c.pc = "isFullScreen" ->      \* await neuWindow.isFullScreen()
            [a EXCEPT !.calls[i].status = a.fullScreen, !.calls[i].pc = "finish"]
       [] OTHER ->                      \* setIsKioskMode(fullScreenStatus), the handler
            [a EXCEPT !.isKioskMode = c.status,
                      !.keydownHandlers = IF a.keyboardHandler THEN @ ELSE @ + 1,
                      !.keyboardHandler = TRUE,
                      !.calls[i].pc = "done"]

\* disableKioskMode from its second await on
disableStep(a, i) ==
  LET c == a.calls[i]
  IN CASE c.pc = "exitFullScreen" ->    \* if (isFullScreen) await exitFullScreen()
            IF c.status
            THEN [a EXCEPT !.fullScreen = FALSE, !.calls[i].pc = "setSize"]
            ELSE [a EXCEPT !.size = "fixed", !.calls[i].pc = "center"]
       [] c.pc = "setSize" ->           \* await neuWindow.setSize({600x800})
            [a EXCEPT !.size = "fixed", !.calls[i].pc = "center"]
       [] c.pc = "center" ->            \* await neuWindow.center()
            [a EXCEPT !.calls[i].pc = "finish"]
       [] OTHER ->                      \* the handler removed, setIsKioskMode(false)
            [a EXCEPT !.isKioskMode = FALSE,
                      !.keydownHandlers = IF a.keyboardHandler THEN @ - 1 ELSE @,
                      !.keyboardHandler = FALSE,
                      !.calls[i].pc = "done"]

KioskStep(i) ==
  /\ ~initPending
  /\ app.calls[i].pc \notin {"idle", "done"}
  /\ app' = IF app.calls[i].kind = "enable" THEN enableStep(app, i)
            ELSE disableStep(app, i)
  /\ UNCHANGED << now, sessions, logs, devices, ls, authStore, monitor, shot, sm, tick,
                  init, poll, login, logout, ext, initPending, logoutTimers,
                  reloadTimers, failures, hist >>

\* App at its first render: the useState initial values (part_002:18-38),
\* parsedDeviceInfo as localStorage 'device_info' gives it (NoDevice: none
\* saved), isLoggedIn from the saved login info or the auth store; the
\* window as the program finds it and no listener registered yet
FreshApp(info, in) ==
  [isLoggedIn |-> in, userId |-> IF in THEN User ELSE NoUser,
   hasActiveSession |-> FALSE, activeSessionData |-> NoSnap,
   isKioskMode |-> FALSE, fullScreen |-> FALSE, size |-> "fixed",
   keyboardHandler |-> FALSE, keydownHandlers |-> 0,
   calls |-> [i \in KioskCallIds |-> IdleKioskCall],
   parsedDeviceInfo |-> info, deviceId |-> NoDevice,
   showDeviceRegistration |-> FALSE, listening |-> FALSE]

\* The effect of App on [getOs, parsedDeviceInfo, isLoggedIn, ...] at the
\* first render: it defines initApp and handleKioskModeEvent, adds the
\* listener of 'enable-kiosk-mode' and returns the cleanup that removes it
\* (part_002:591-596).  The statements after that return, updateTime, the
\* clock interval, initApp() and setupExitHandler() (598-614), are not
\* reached, so nothing calls setDeviceId or setShowDeviceRegistration here.
AppEffect ==
  /\ ~initPending
  /\ ~app.listening
  /\ app' = [app EXCEPT !.listening = TRUE]
  /\ UNCHANGED << now, sessions, logs, devices, ls, authStore, monitor, shot, sm, tick,
                  init, poll, login, logout, ext, initPending, logoutTimers,
                  reloadTimers, failures, hist >>

\* -------------------------------------------------------------------- Init
Seeds ==
  { << >>,
    << Session(LocalDevice, "Active", DayLen - 140, DayLen - 20, 100) >>,
    << Session(LocalDevice, "Occupied", DayLen - 140, DayLen - 20, 0) >>,
    << Session(LocalDevice, "Extended", DayLen - 260, DayLen - 20, 200) >>,
    << [Session(LocalDevice, "Closed", DayLen - 140, DayLen - 20, 100)
          EXCEPT !.amount_paid = 100] >>,
    << Session(LocalDevice, "Active", DayLen - 140, DayLen - 20, 100),
       Session(OtherDevice, "Active", DayLen - 130, DayLen - 10, 100) >>,
    << Session(LocalDevice, "Active", DayLen - 115, DayLen + 5, 100),
       Session(OtherDevice, "Active", DayLen - 130, DayLen - 10, 100) >> }

\* the state with App as a, localStorage as l, the watcher as m and
\* SessionManager as s (pending: its initSession effect is due)
Construct(a, l, m, s, pending) ==
  /\ now \in Times
  /\ sessions \in Seeds
  /\ logs = << >>
  /\ devices = [d \in Devices |->
                  IF d = LocalDevice
                  THEN [status |-> "In-Use", token |-> "tok", client_record |-> User]
                  ELSE [status |-> "Available", token |-> "", client_record |-> ""]]
  /\ app = a
  /\ ls = l
  /\ authStore = NoAuth
  /\ monitor = m
  /\ shot = FreshShot
  /\ sm = s
  /\ tick = [i \in TickIds |-> IdleTick]
  /\ init = [i \in InitIds |-> IdleInit]
  /\ poll = IdlePoll
  /\ login = IdleLogin
  /\ logout = IdleLogout
  /\ ext = IdleExt
  /\ initPending = pending
  /\ logoutTimers = [tick |-> 0, init |-> 0]
  /\ reloadTimers = 0
  /\ failures = 0
  /\ hist = EmptyHist

\* The terminal registered, nobody logged in, the window locked and the
\* components that App renders under "deviceId &&" mounted with the local
\* device.
Init ==
  Construct(enableKioskMode([FreshApp(LocalDevice, FALSE) EXCEPT
                               !.deviceId = LocalDevice, !.listening = TRUE]),
            [user_login_info |-> FALSE, client_app_login |-> FALSE],
            MountedMonitor, FreshSM(0), FALSE)

\* ------------------------------------------------------------------- clock
AdvanceTime ==
  /\ ~initPending
  /\ \E t \in Times : t > now /\ now' = t
  /\ UNCHANGED << sessions, logs, devices, app, ls, authStore, monitor, shot, sm, tick, init, poll,
                  login, logout, ext, initPending, logoutTimers, reloadTimers,
                  failures, hist >>

\* ---------------------------------------------------- App.handleLogin
\* Login.jsx authenticated the user (the auth store holds the token) and,
\* when it found an Available device, set client_app_login.  handleLogin
\* stores the login and renders SessionManager, then looks for an open
\* session of the device.
handleLogin ==
  /\ ~initPending
  /\ ~app.isLoggedIn /\ login.pc = "idle" /\ login.runs < MaxLogins
  /\ reloadTimers = 0
  /\ \E flag \in BOOLEAN :
       /\ ls' = [user_login_info |-> TRUE, client_app_login |-> flag \/ ls.client_app_login]
       /\ login' = [pc |-> "list", runs |-> login.runs + 1,
                    isClientAppLogin |-> flag \/ ls.client_app_login]
  /\ authStore' = SavedAuth(LoginToken, User)
  /\ UNCHANGED << monitor, shot >>
  /\ Commit(MountedSM(sm.gen + 1),
            [app EXCEPT !.isLoggedIn = TRUE, !.userId = User], FALSE, FALSE)
  /\ UNCHANGED << now, sessions, logs, devices, tick, init, poll, logout, ext,
                  logoutTimers, reloadTimers, failures, hist >>

handleLoginList ==
  /\ ~initPending
  /\ login.pc = "list"
  /\ \E ok \in Outcomes :
       /\ Charge(ok)
       /\ LET id == IF ok THEN ListOpen(LocalDevice) ELSE NoId
          IN IF id # NoId
             THEN Commit(sm, [disableKioskMode(app) EXCEPT
                                !.hasActiveSession = TRUE,
                                !.activeSessionData = Snap(id)], TRUE, FALSE)
             ELSE IF ok /\ ~login.isClientAppLogin
             THEN Commit(sm, enableKioskMode(app), FALSE, FALSE)
             ELSE Commit(sm, disableKioskMode(app), FALSE, FALSE)
  /\ login' = [login EXCEPT !.pc = "idle"]
  /\ UNCHANGED << now, sessions, logs, devices, ls, authStore, monitor, shot, tick, init, poll,
                  logout, ext, logoutTimers, reloadTimers, hist >>

\* ----------------------------------------------------- DeviceTokenMonitor
\* The watcher's effect depends on lastCheckedToken and on
\* checkDeviceTokenAndLogin, which is made anew when lastCheckedToken or
\* onAutoLogin changes.  When a dependency changes, the cleanup of a running
\* effect unsubscribes, clears the interval and resets isMonitoring, and the
\* body does nothing because the render still has isMonitoring set; when no
\* effect is running the body sets everything up again: isMonitoring, the
\* subscription, the interval and an initial check, all of them with the
\* lastCheckedToken of that render.  Checks under way are not cancelled.
CanStartCheck(m) == FreeSlot(m.checks, CheckIds) # 0

StartCheck(m, by) ==
  [m EXCEPT !.checks[FreeSlot(m.checks, CheckIds)] =
              [IdleCheck EXCEPT !.pc = "getOne", !.by = by, !.last = m.closure]]

CanRerun(m) == m.isMonitoring \/ CanStartCheck(m)

EffectRerun(m) ==
  IF m.isMonitoring
  THEN [m EXCEPT !.isMonitoring = FALSE]
  ELSE StartCheck([m EXCEPT !.isMonitoring = TRUE, !.closure = m.lastCheckedToken],
                  "initial")

setLastCheckedToken(m, token) ==
  IF m.lastCheckedToken = token THEN m
  ELSE EffectRerun([m EXCEPT !.lastCheckedToken = token])

\* (a watcher that takes the token off the device once it has read it)
MonitorStoreConsuming ==
  /\ devices' = [devices EXCEPT ![LocalDevice].token = NoToken]
  /\ UNCHANGED << sessions, logs >>

\* the store calls of the watcher are devices.getOne, devices.subscribe,
\* clients.getOne and users.getOne: nothing is written
MonitorStore == UNCHANGED << sessions, logs, devices >>

\* the device's token is replaced from outside (the admin panel books or
\* frees the terminal); the subscription callback of a running effect starts
\* a check when the record has a token other than its lastCheckedToken
DeviceTokenWritten(token) ==
  /\ ~initPending
  /\ hist.tokenWrites < MaxTokenWrites
  /\ token # devices[LocalDevice].token
  /\ devices' = [devices EXCEPT ![LocalDevice].token = token,
                                ![LocalDevice].client_record =
                                   IF token = NoToken THEN "" ELSE User]
  /\ hist' = [hist EXCEPT !.tokenWrites = @ + 1]
  /\ LET called == monitor.isMonitoring /\ token # NoToken /\ token # monitor.closure
     IN /\ called => CanStartCheck(monitor)
        /\ monitor' = IF called THEN StartCheck(monitor, "realtime") ELSE monitor
  /\ UNCHANGED << now, sessions, logs, app, ls, authStore, shot, sm, tick, init,
                  poll, login, logout, ext, initPending, logoutTimers, reloadTimers,
                  failures >>

\* the 30-second interval of a running effect fires
IntervalCheck ==
  /\ ~initPending
  /\ monitor.isMonitoring /\ CanStartCheck(monitor)
  /\ now' = now + 1
  /\ monitor' = StartCheck(monitor, "interval")
  /\ UNCHANGED << sessions, logs, devices, app, ls, authStore, shot, sm, tick,
                  init, poll, login, logout, ext, initPending, logoutTimers,
                  reloadTimers, failures, hist >>

\* App renders again after a change of its own state and hands the watcher a
\* new handleAutoLogin
AppRendered ==
  /\ ~initPending
  /\ hist.renders < MaxRenders
  /\ CanRerun(monitor)
  /\ monitor' = EffectRerun(monitor)
  /\ hist' = [hist EXCEPT !.renders = @ + 1]
  /\ UNCHANGED << now, sessions, logs, devices, app, ls, authStore, shot, sm,
                  tick, init, poll, login, logout, ext, initPending, logoutTimers,
                  reloadTimers, failures >>

\* App.handleAutoLogin up to its first await: the login is stored and
\* SessionManager rendered; the session query and the kiosk operation that
\* follow are the steps of handleLoginList, with the branches of a regular
\* login.  A second call while that query is under way shares its answer.
handleAutoLogin(userId) ==
  /\ ls' = [ls EXCEPT !.user_login_info = TRUE]
  /\ login' = [login EXCEPT !.pc = "list", !.isClientAppLogin = FALSE]
  /\ IF app.isLoggedIn
     THEN Commit(sm, [app EXCEPT !.userId = userId], FALSE, FALSE)
     ELSE Commit(MountedSM(sm.gen + 1),
                 [app EXCEPT !.isLoggedIn = TRUE, !.userId = userId], FALSE, FALSE)

NoAutoLogin == UNCHANGED << app, ls, sm, login, initPending >>

\* (a watcher that takes the device's user when the payload names none)
TokenUserIdAssumed(token) ==
  IF TokenUserId(token) = "" THEN User ELSE TokenUserId(token)

\* the user id the watcher goes on with: the payload's claim, and
\* if (!userId) return false on either decoding path
TokenUserIdChecked(token) == TokenUserId(token)

\* what a check that ends adds to the history
\* (alone: no other call touched the auth store after this call's own save)
NoteFailed(h, p, reason, after, alone) ==
  [h EXCEPT !.failedChecks = @ \cup
     {[token |-> p.token, reason |-> reason, before |-> p.before, after |-> after,
       alone |-> alone]}]

NoteAutoLogin(h, p) ==
  [h EXCEPT !.autoLogins = Append(@,
     [token |-> p.token, last |-> p.last, valid |-> validateToken(p.token, p.at),
      epoch |-> p.epoch, userId |-> p.userId, by |-> p.by])]

\* checkDeviceTokenAndLogin from devices.getOne to the first user lookup
CheckGetOne(i) ==
  /\ ~initPending
  /\ monitor.checks[i].pc = "getOne"
  /\ \E ok \in Outcomes :
       /\ Charge(ok)
       /\ LET p == monitor.checks[i]
              device == devices[LocalDevice]
              fresh == ok /\ device.token # NoToken /\ device.token # p.last
              gone == ok /\ device.token = NoToken /\ p.last # NoToken
              m1 == IF fresh THEN setLastCheckedToken(monitor, device.token)
                    ELSE IF gone THEN setLastCheckedToken(monitor, NoToken)
                    ELSE monitor
              valid == fresh /\ validateToken(device.token, now)
              saved == IF valid THEN SavedAuth(device.token, device.client_record)
                       ELSE authStore
              userId == IF valid THEN TokenUserIdChecked(device.token) ELSE NoUser
              q == [p EXCEPT !.token = IF ok THEN device.token ELSE NoToken,
                             !.at = now, !.epoch = hist.tokenWrites,
                             !.userId = userId, !.before = authStore, !.mine = saved,
                             !.path = IF isValid(saved, now) THEN "store" ELSE "manual"]
          IN /\ (fresh \/ gone) => CanRerun(monitor)
             /\ authStore' = saved
             /\ monitor' = [m1 EXCEPT !.checks[i] =
                              IF valid /\ userId # NoUser
                              THEN [q EXCEPT !.pc = "clients"] ELSE DoneCheck]
             /\ hist' = IF ~ok THEN NoteFailed(hist, q, "device", saved, TRUE)
                        ELSE LET h == [hist EXCEPT !.tokenRead = hist.tokenWrites]
                             IN IF fresh /\ ~valid
                                THEN NoteFailed(h, q, "invalid", saved, TRUE)
                                ELSE IF valid /\ userId = NoUser
                                THEN NoteFailed(h, q, "no_user_id", saved, TRUE)
                                ELSE h
  /\ MonitorStore
  /\ NoAutoLogin
  /\ UNCHANGED << now, shot, tick, init, poll, logout, ext, logoutTimers,
                  reloadTimers >>

\* the lookup in 'clients'.  When the store's isValid accepted the token a
\* miss goes on to 'users'; on the manual path the user is saved to the auth
\* store and a miss ends the check.
CheckClients(i) ==
  /\ ~initPending
  /\ monitor.checks[i].pc = "clients"
  /\ \E ok \in Outcomes :
       /\ Charge(ok)
       /\ LET p == monitor.checks[i]
              found == ok /\ p.userId \in ClientsCollection
              saved == IF found /\ p.path = "manual"
                       THEN SavedAuth(p.token, p.userId) ELSE authStore
          IN /\ authStore' = saved
             /\ monitor' = [monitor EXCEPT !.checks[i] =
                              IF ~found /\ p.path = "store"
                              THEN [p EXCEPT !.pc = "users"] ELSE DoneCheck]
             /\ hist' = IF found THEN NoteAutoLogin(hist, p)
                        ELSE IF p.path = "manual"
                        THEN NoteFailed(hist, p, "no_user", saved, authStore = p.mine)
                        ELSE hist
             /\ IF found THEN handleAutoLogin(p.userId) ELSE NoAutoLogin
  /\ MonitorStore
  /\ UNCHANGED << now, shot, tick, init, poll, logout, ext, logoutTimers,
                  reloadTimers >>

\* the lookup in 'users'
CheckUsers(i) ==
  /\ ~initPending
  /\ monitor.checks[i].pc = "users"
  /\ \E ok \in Outcomes :
       /\ Charge(ok)
       /\ LET p == monitor.checks[i]
              found == ok /\ p.userId \in UsersCollection
          IN /\ monitor' = [monitor EXCEPT !.checks[i] = DoneCheck]
             /\ hist' = IF found THEN NoteAutoLogin(hist, p)
                        ELSE NoteFailed(hist, p, "no_user", authStore, authStore = p.mine)
             /\ IF found THEN handleAutoLogin(p.userId) ELSE NoAutoLogin
  /\ authStore' = authStore
  /\ MonitorStore
  /\ UNCHANGED << now, shot, tick, init, poll, logout, ext, logoutTimers,
                  reloadTimers >>


\* ------------------------------------------------------ ScreenshotMonitor
\* App renders ScreenshotMonitor while deviceId && isLoggedIn.  takeScreenshot
\* is made anew when lastScreenshotTime changes; the realtime effect calls
\* the one of the current render, the poll's checkScreenshotRequested the one
\* of the render its effect was set up in.
OnOff(flag) == IF flag THEN "on" ELSE "off"

CanStartShot(h) == FreeSlot(h.calls, ShotIds) # 0

\* takeScreenshot up to its first await: the cooldown test against the
\* closure's lastScreenshotTime
Take(last) ==
  IF shot.time - last < SCREENSHOT_COOLDOWN THEN DoneShotCall
  ELSE [pc |-> "capture", last |-> last, start |-> shot.time]

NoteStart(h, call) ==
  IF call.pc = "capture" THEN [h EXCEPT !.shotStarts = Append(@, call.start)] ELSE h

\* the realtime effect runs with the data d: a call of takeScreenshot when
\* deviceData[0].take_screenshot is true
RealtimeTake(h, d) ==
  IF d = "on"
  THEN [h EXCEPT !.data = d,
                 !.calls[FreeSlot(h.calls, ShotIds)] = Take(h.lastScreenshotTime)]
  ELSE [h EXCEPT !.data = d]

RealtimeNote(h, d) ==
  IF d = "on" THEN NoteStart(h, Take(shot.lastScreenshotTime)) ELSE h

\* (a catch that leaves the flag as it is)
resetTakeScreenshotSkipped(flag, ok) == flag

\* devices.update(deviceId, {take_screenshot: false}) in the catch
resetTakeScreenshot(flag, ok) == IF ok THEN FALSE ELSE flag

\* the first render and its effects: the hook fetches the device, the poll
\* effect calls checkScreenshotRequested and sets the interval
ShotMount ==
  /\ ~initPending
  /\ app.isLoggedIn /\ ~shot.mounted
  /\ CanStartShot(shot)
  /\ shot' = [shot EXCEPT !.mounted = TRUE, !.fetching = TRUE, !.polling = TRUE,
                          !.data = "none",
                          !.pollClosure = shot.lastScreenshotTime,
                          !.calls[FreeSlot(shot.calls, ShotIds)] =
                             [IdleShotCall EXCEPT !.pc = "getOne",
                                                  !.last = shot.lastScreenshotTime]]
  /\ UNCHANGED << now, sessions, logs, devices, app, ls, authStore, monitor, sm,
                  tick, init, poll, login, logout, ext, initPending, logoutTimers,
                  reloadTimers, failures, hist >>

\* the hook's getFullList resolves: setData(records), then the subscription
ShotFetched ==
  /\ ~initPending
  /\ shot.mounted /\ shot.fetching
  /\ \E ok \in Outcomes :
       LET d == IF ok THEN OnOff(shot.flag) ELSE "none"
       IN /\ Charge(ok)
          /\ d = "on" => CanStartShot(shot)
          /\ shot' = [RealtimeTake(shot, d) EXCEPT !.fetching = FALSE]
          /\ hist' = RealtimeNote(hist, d)
  /\ UNCHANGED << now, sessions, logs, devices, app, ls, authStore, monitor, sm,
                  tick, init, poll, login, logout, ext, initPending, logoutTimers,
                  reloadTimers >>

\* take_screenshot is set on the device from outside; the update event
\* replaces the record in the hook's data
RequestScreenshot ==
  /\ ~initPending
  /\ hist.requests < MaxRequests
  /\ ~shot.flag
  /\ LET seen == shot.mounted /\ shot.data # "none"
         h == [shot EXCEPT !.flag = TRUE]
     IN /\ seen => CanStartShot(shot)
        /\ shot' = IF seen THEN RealtimeTake(h, "on") ELSE h
        /\ hist' = [(IF seen THEN RealtimeNote(hist, "on") ELSE hist)
                      EXCEPT !.requests = @ + 1]
  /\ UNCHANGED << now, sessions, logs, devices, app, ls, authStore, monitor, sm,
                  tick, init, poll, login, logout, ext, initPending, logoutTimers,
                  reloadTimers, failures >>

\* the 30-second interval of the poll effect fires
ShotInterval ==
  /\ ~initPending
  /\ shot.mounted /\ shot.polling /\ CanStartShot(shot)
  /\ shot' = [shot EXCEPT !.time = @ + 30,
                          !.calls[FreeSlot(shot.calls, ShotIds)] =
                             [IdleShotCall EXCEPT !.pc = "getOne",
                                                  !.last = shot.pollClosure]]
  /\ UNCHANGED << now, sessions, logs, devices, app, ls, authStore, monitor, sm,
                  tick, init, poll, login, logout, ext, initPending, logoutTimers,
                  reloadTimers, failures, hist >>

\* a second passes
ShotClock ==
  /\ ~initPending
  /\ shot.time < ShotEpoch + MaxShotClock
  /\ shot' = [shot EXCEPT !.time = @ + 1]
  /\ UNCHANGED << now, sessions, logs, devices, app, ls, authStore, monitor, sm,
                  tick, init, poll, login, logout, ext, initPending, logoutTimers,
                  reloadTimers, failures, hist >>

ShotFrame ==
  UNCHANGED << now, sessions, logs, devices, app, ls, authStore, monitor, sm,
               tick, init, poll, login, logout, ext, initPending, logoutTimers,
               reloadTimers >>

\* checkScreenshotRequested: devices.getOne, then takeScreenshot when the
\* flag is set
ShotGetOne(i) ==
  /\ ~initPending
  /\ shot.calls[i].pc = "getOne"
  /\ \E ok \in Outcomes :
       LET call == IF ok /\ shot.flag THEN Take(shot.calls[i].last) ELSE DoneShotCall
       IN /\ Charge(ok)
          /\ shot' = [shot EXCEPT !.calls[i] = call]
          /\ hist' = NoteStart(hist, call)
  /\ ShotFrame

\* the capture: OS detection, the screenshot commands, the file checks
ShotCapture(i) ==
  /\ ~initPending
  /\ shot.calls[i].pc = "capture"
  /\ \E ok \in BOOLEAN :
       shot' = [shot EXCEPT !.calls[i].pc = IF ok THEN "upload" ELSE "errorReset"]
  /\ UNCHANGED << failures, hist >>
  /\ ShotFrame

\* screenshots.create(formData)
ShotUpload(i) ==
  /\ ~initPending
  /\ shot.calls[i].pc = "upload"
  /\ \E ok \in Outcomes :
       /\ Charge(ok)
       /\ shot' = [shot EXCEPT !.calls[i].pc = IF ok THEN "reset" ELSE "errorReset"]
  /\ UNCHANGED hist
  /\ ShotFrame

\* devices.update(take_screenshot: false) and setLastScreenshotTime after the
\* upload.  The new lastScreenshotTime makes takeScreenshot and
\* checkScreenshotRequested anew: the poll effect is set up again and calls
\* checkScreenshotRequested at once.  A rejected update goes to the catch.
ShotReset(i) ==
  /\ ~initPending
  /\ shot.calls[i].pc = "reset"
  /\ \E ok \in Outcomes :
       LET again == ok /\ shot.mounted /\ shot.lastScreenshotTime # shot.time
           h == [shot EXCEPT !.calls[i] = IF ok THEN DoneShotCall
                                          ELSE [@ EXCEPT !.pc = "errorReset"],
                             !.flag = IF ok THEN FALSE ELSE @,
                             !.data = IF ok /\ @ # "none" THEN "off" ELSE @,
                             !.lastScreenshotTime = IF ok THEN shot.time ELSE @,
                             !.pollClosure = IF again THEN shot.time ELSE @]
       IN /\ Charge(ok)
          /\ again => CanStartShot(h)
          /\ shot' = IF again
                     THEN [h EXCEPT !.calls[FreeSlot(h.calls, ShotIds)] =
                             [IdleShotCall EXCEPT !.pc = "getOne", !.last = shot.time]]
                     ELSE h
          /\ hist' = IF ok
                     THEN [hist EXCEPT !.shots = @ \cup
                             {[start |-> shot.calls[i].start, failed |-> FALSE,
                               resetOk |-> TRUE, flagAfter |-> FALSE]}]
                     ELSE hist
  /\ ShotFrame

\* the catch: the flag is reset after a failed capture or upload
ShotErrorReset(i) ==
  /\ ~initPending
  /\ shot.calls[i].pc = "errorReset"
  /\ \E ok \in Outcomes :
       LET flag == resetTakeScreenshot(shot.flag, ok)
       IN /\ Charge(ok)
          /\ shot' = [shot EXCEPT !.calls[i] = DoneShotCall, !.flag = flag,
                                  !.data = IF ok /\ @ # "none" THEN OnOff(flag) ELSE @]
          /\ hist' = [hist EXCEPT !.shots = @ \cup
                        {[start |-> shot.calls[i].start, failed |-> TRUE,
                          resetOk |-> ok, flagAfter |-> flag]}]
  /\ ShotFrame


\* ------------------------------------- SessionManager.updateRemainingTime
\* One call of updateRemainingTime by the tick effect (on every change of
\* its dependencies and every second while isSessionActive).  The call
\* reads the state of the current render.  Its synchronous part happens
\* here; when it decides to close the session it goes on as close flow i.
updateRemainingTime ==
  /\ ~initPending
  /\ sm.mounted /\ sm.isSessionActive
  /\ sm.outTime # NoTime
  /\ LET diff == sm.outTime - now
         key == << sm.sessionId, sm.outTime >>
         has == sm.sessionId # NoId
         yest == isYesterday(now, sm.outTime)
         totalMinutesLeft == diff \div OneMinute
         notify == diff <= 0 /\ has /\ ~sm.notificationShown
         close == diff <= 0 /\ has /\ yest
         soon == diff > 0 /\ has /\ totalMinutesLeft <= 5 /\ totalMinutesLeft > 0
                   /\ ~sm.notificationShown
         reset == diff > 0 /\ has /\ totalMinutesLeft > 5 /\ sm.notificationShown
         i == FreeSlot(tick, TickIds)
         dev == IF sm.deviceInfo # NoDevice THEN sm.deviceInfo ELSE LocalDevice
     IN /\ close => i # 0
        /\ tick' = IF close
                   THEN [tick EXCEPT ![i] =
                          [pc |-> IF sm.deviceInfo # NoDevice THEN "cost" ELSE "update",
                           gen |-> sm.gen, sid |-> sm.sessionId, dev |-> dev,
                           infoDev |-> sm.deviceInfo, inT |-> sm.inTime,
                           outT |-> sm.outTime, shown |-> sm.notificationShown,
                           cost |-> sm.sessionCost, disc |-> 0, rate |-> 0,
                           rejected |-> FALSE]]
                   ELSE tick
        /\ logoutTimers' = IF notify THEN [logoutTimers EXCEPT !.tick = @ + 1]
                           ELSE logoutTimers
        /\ hist' = [hist EXCEPT
                      !.expired = IF diff <= 0 /\ has THEN @ \cup {key} ELSE @,
                      !.window = IF diff > 0 /\ diff <= FiveMinutes /\ has
                                 THEN @ \cup {diff} ELSE @,
                      !.sameDaySeen = IF diff <= 0 /\ has /\ ~yest
                                      THEN @ \cup {"tick"} ELSE @,
                      !.ended = IF notify THEN Append(@, key) ELSE @,
                      !.timers = IF notify THEN Append(@, key) ELSE @,
                      !.soon = IF soon THEN @ \cup {diff} ELSE @]
        /\ Commit([sm EXCEPT !.notificationShown =
                      IF notify \/ soon THEN TRUE ELSE IF reset THEN FALSE ELSE @],
                  app, FALSE, FALSE)
  /\ UNCHANGED << now, sessions, logs, devices, ls, authStore, monitor, shot, init, poll, login,
                  logout, ext, reloadTimers, failures >>


\* the fields written when a reconciliation closes a session
CloseFields(rec, cost, disc, rate) ==
  [rec EXCEPT !.status = "Closed", !.amount_paid = cost, !.discount_amount = disc,
              !.discount_rate = rate, !.session_total = cost, !.total_amount = cost]

Released == [status |-> "Available", token |-> "", client_record |-> ""]

ClosedLog(sid, cost) == [session_id |-> sid, type |-> "Closed", session_amount |-> cost]

\* observation: writer w closed, logged or released while the stored session is
\* a same-day expiry
NoteSameDay(h, sid, w) ==
  IF sid \in SessionIds /\ ExpiredSameDay(sessions[sid], now)
  THEN [h EXCEPT !.sameDayClose = @ \cup {w}] ELSE h

\* observation: a flow whose session update was rejected went on to do 'what'
NoteRejected(h, rejected, what) ==
  IF rejected THEN [h EXCEPT !.afterRejected = @ \cup what] ELSE h

\* observation: trigger 'by' examined the expired stored session 'before' at
\* the clock and left it as 'after'
NoteReconciled(h, by, before, after) ==
  [h EXCEPT !.reconciled = @ \cup
     {[by |-> by, before |-> before, at |-> now, after |-> after]}]

\* await fetchDeviceGroupAndCalculateCost(deviceInfo.id, durationHours)
TickCost(i) ==
  /\ ~initPending
  /\ tick[i].pc = "cost"
  /\ \E res \in CostOutcomes :
       LET p == tick[i]
           cd == fetchDeviceGroupAndCalculateCost(p.infoDev, p.outT - p.inT, now, res)
       IN /\ Charge(res = "ok")
          /\ tick' = [tick EXCEPT ![i] = [p EXCEPT !.pc = "update",
                                                   !.cost = cd.finalCost,
                                                   !.disc = cd.discountAmount,
                                                   !.rate = cd.discountRate]]
          /\ IF Live(p.gen)
             THEN Commit([sm EXCEPT !.sessionCost = cd.finalCost,
                                    !.deviceInfo = IF res = "fail" THEN @ ELSE p.infoDev],
                         app, FALSE, res # "fail")
             ELSE Commit(sm, app, FALSE, FALSE)
  /\ UNCHANGED << now, sessions, logs, devices, ls, authStore, monitor, shot, init, poll, login,
                  logout, ext, logoutTimers, reloadTimers, hist >>

\* await update(sessionId, {status: 'Closed', ...}): the hook's update
\* catches a rejection and returns null, so the flow goes on either way
TickUpdate(i) ==
  /\ ~initPending
  /\ tick[i].pc = "update"
  /\ \E ok \in Outcomes :
       LET p == tick[i]
       IN /\ Charge(ok)
          /\ sessions' = IF ok
                         THEN [sessions EXCEPT ![p.sid] = CloseFields(@, p.cost, p.disc, p.rate)]
                         ELSE sessions
          /\ hist' = IF ok
                     THEN [NoteReconciled(NoteSameDay(hist, p.sid, "tick"), "tick",
                                          sessions[p.sid],
                                          CloseFields(sessions[p.sid], p.cost, p.disc, p.rate))
                             EXCEPT !.closedWrites = Append(@, << p.sid, "tick" >>)]
                     ELSE hist
          /\ tick' = [tick EXCEPT ![i].pc = "log", ![i].rejected = ~ok]
  /\ UNCHANGED << now, logs, devices, app, ls, authStore, monitor, shot, sm, init, poll, login,
                  logout, ext, initPending, logoutTimers, reloadTimers >>

\* await session_logs.create({type: 'Closed'}); a rejection lands in the
\* catch block, which only shows the error notification
TickLog(i) ==
  /\ ~initPending
  /\ tick[i].pc = "log"
  /\ \E ok \in Outcomes :
       LET p == tick[i]
       IN /\ Charge(ok)
          /\ IF ok
             THEN /\ logs' = Append(logs, ClosedLog(p.sid, p.cost))
                  /\ hist' = NoteRejected(NoteSameDay(hist, p.sid, "tick"),
                                          p.rejected, {"Closed log"})
                  /\ tick' = [tick EXCEPT ![i].pc = "device"]
                  /\ UNCHANGED << sm, app, initPending >>
             ELSE /\ UNCHANGED << logs, hist >>
                  /\ tick' = [tick EXCEPT ![i] = DoneTick]
                  /\ IF Live(p.gen) /\ ~p.shown
                     THEN Commit([sm EXCEPT !.notificationShown = TRUE], app, FALSE, FALSE)
                     ELSE Commit(sm, app, FALSE, FALSE)
  /\ UNCHANGED << now, sessions, devices, ls, authStore, monitor, shot, init, poll, login, logout,
                  ext, logoutTimers, reloadTimers >>

\* await devices.update(deviceId, {Available, '', ''}), then
\* setIsSessionActive(false) and the second notification block, which tests
\* the notificationShown of the closure
TickDevice(i) ==
  /\ ~initPending
  /\ tick[i].pc = "device"
  /\ \E ok \in Outcomes :
       LET p == tick[i]
           key == << p.sid, p.outT >>
       IN /\ Charge(ok)
          /\ devices' = IF ok THEN [devices EXCEPT ![p.dev] = Released] ELSE devices
          /\ tick' = [tick EXCEPT ![i] = DoneTick]
          /\ logoutTimers' = IF ~p.shown THEN [logoutTimers EXCEPT !.tick = @ + 1]
                             ELSE logoutTimers
          /\ hist' = LET h0 == IF ok THEN NoteSameDay(hist, p.sid, "tick") ELSE hist
                         h == NoteRejected(h0, p.rejected,
                                (IF ok THEN {"device released"} ELSE {}) \cup
                                (IF Live(p.gen) /\ sm.isSessionActive
                                 THEN {"isSessionActive"} ELSE {}))
                     IN IF ~p.shown
                        THEN [h EXCEPT !.ended = Append(@, key), !.timers = Append(@, key)]
                        ELSE h
          /\ IF Live(p.gen)
             THEN Commit([sm EXCEPT !.isSessionActive = FALSE,
                                    !.notificationShown = IF ~p.shown THEN TRUE ELSE @],
                         app, FALSE, FALSE)
             ELSE Commit(sm, app, FALSE, FALSE)
  /\ UNCHANGED << now, sessions, logs, ls, authStore, monitor, shot, init, poll, login, logout,
                  ext, reloadTimers >>

\* ------------------------------------------------------- useRealtimePb
\* fetchInitialData with filter f resolves: setData(records), then
\* subscribe().  A rejected getFullList leaves the data as it is.  The calls
\* of different effect runs resolve in any order.
RtFetched(f) ==
  /\ ~initPending
  /\ sm.mounted /\ f \in sm.rtPending
  /\ \E ok \in Outcomes :
       LET ids == IF f = NoId THEN Newest(SessionIds)
                  ELSE IF f \in SessionIds THEN << f >> ELSE << >>
           data == IF ok THEN [k \in 1 .. Len(ids) |-> Snap(ids[k])] ELSE sm.sessionData
       IN /\ Charge(ok)
          /\ CommitAll([sm EXCEPT !.sessionData = data, !.rtPending = @ \ {f},
                                  !.subscribed = TRUE, !.rtLast = sessions],
                       app, FALSE, FALSE, ok)
  /\ UNCHANGED << now, sessions, logs, devices, ls, authStore, monitor, shot, tick, init, poll,
                  login, logout, ext, logoutTimers, reloadTimers, hist >>

\* An event of the subscription to '*' arrives: a 'create' puts the record
\* in front of the data, an 'update' replaces the item with its id; both
\* make a new array.  Events arrive in the order of the writes.
RtEvent(s) ==
  /\ ~initPending
  /\ sm.mounted /\ sm.subscribed
  /\ s \in SessionIds
  /\ \/ s = Len(sm.rtLast) + 1
     \/ s <= Len(sm.rtLast) /\ sm.rtLast[s] # sessions[s]
  /\ LET created == s > Len(sm.rtLast)
         data == IF created THEN << Snap(s) >> \o sm.sessionData
                 ELSE [k \in 1 .. Len(sm.sessionData) |->
                         IF sm.sessionData[k].id = s THEN Snap(s) ELSE sm.sessionData[k]]
         last == IF created THEN Append(sm.rtLast, sessions[s])
                 ELSE [sm.rtLast EXCEPT ![s] = sessions[s]]
     IN CommitAll([sm EXCEPT !.sessionData = data, !.rtLast = last],
                  app, FALSE, FALSE, TRUE)
  /\ UNCHANGED << now, sessions, logs, devices, ls, authStore, monitor, shot, tick, init, poll,
                  login, logout, ext, logoutTimers, reloadTimers, failures, hist >>

\* Another client of the store creates a session of another device (the
\* counter books the next terminal): the subscription to '*' of every
\* terminal gets its 'create' event.
SessionCreatedElsewhere ==
  /\ ~initPending
  /\ Len(sessions) < MaxSessions
  /\ sessions' = Append(sessions, Session(OtherDevice, "Active", now, now + OneHour, 100))
  /\ UNCHANGED << now, logs, devices, app, ls, authStore, monitor, shot, sm, tick,
                  init, poll, login, logout, ext, initPending, logoutTimers,
                  reloadTimers, failures, hist >>

\* pbclient.collection('devices').getOne(device).then(setDeviceInfo), started
\* by the realtime effect or the props effect while deviceInfo is null
DeviceInfoLoaded ==
  /\ ~initPending
  /\ sm.mounted /\ sm.fetching # NoDevice
  /\ \E ok \in Outcomes :
       /\ Charge(ok)
       /\ CommitAll([sm EXCEPT !.fetching = NoDevice,
                               !.deviceInfo = IF ok THEN sm.fetching ELSE @],
                    app, FALSE, ok, FALSE)
  /\ UNCHANGED << now, sessions, logs, devices, ls, authStore, monitor, shot, tick, init, poll,
                  login, logout, ext, logoutTimers, reloadTimers, hist >>

\* ------------------------------------------------ the auto-logout timers
\* setTimeout(..., 5000) set by updateRemainingTime (kind "tick") or by
\* initSession (kind "init", which leaves client_app_login in place)
LogoutTimerFire(kind) ==
  /\ ~initPending
  /\ logoutTimers[kind] > 0
  /\ logoutTimers' = [logoutTimers EXCEPT ![kind] = @ - 1]
  /\ ls' = [user_login_info |-> FALSE,
            client_app_login |-> IF kind = "tick" THEN FALSE ELSE ls.client_app_login]
  /\ authStore' = NoAuth
  /\ UNCHANGED << monitor, shot >>
  /\ reloadTimers' = reloadTimers + 1
  /\ hist' = [hist EXCEPT !.autoLogouts = @ + 1, !.kioskRequests = @ + 1]
  /\ app' = handleKioskModeEvent(app, TRUE)
  /\ UNCHANGED << now, sessions, logs, devices, sm, tick, init, poll, login,
                  logout, ext, initPending, failures >>

\* window.location.reload(): the page starts over; handlers in flight and
\* timers are gone, App and SessionManager start from their initial state
Killed(p, idle) == IF p.pc = "idle" THEN p ELSE [idle EXCEPT !.pc = "done"]

Reload ==
  /\ reloadTimers > 0
  /\ reloadTimers' = 0
  /\ logoutTimers' = [tick |-> 0, init |-> 0]
  /\ tick' = [i \in TickIds |-> Killed(tick[i], IdleTick)]
  /\ init' = [i \in InitIds |-> Killed(init[i], IdleInit)]
  /\ poll' = [poll EXCEPT !.pc = "idle", !.s = NoSnap, !.status = "",
                          !.isLoggedIn = ls.user_login_info \/ isValid(authStore, now)]
  /\ login' = [login EXCEPT !.pc = "idle"]
  /\ logout' = [logout EXCEPT !.pc = "idle", !.s = NoSnap]
  /\ ext' = [IdleExt EXCEPT !.runs = ext.runs]
  /\ LET in == ls.user_login_info \/ isValid(authStore, now)
     IN /\ in => HasFreeInit
        /\ app' = [isLoggedIn |-> in, userId |-> IF in THEN User ELSE NoUser,
                   hasActiveSession |-> FALSE, activeSessionData |-> NoSnap,
                   isKioskMode |-> FALSE, fullScreen |-> app.fullScreen,
                   size |-> app.size,
                   keyboardHandler |-> FALSE, keydownHandlers |-> 0,
                   calls |-> [i \in KioskCallIds |->
                                IF app.calls[i].pc = "idle" THEN IdleKioskCall
                                ELSE [IdleKioskCall EXCEPT !.pc = "done"]],
                   parsedDeviceInfo |-> app.parsedDeviceInfo,
                   deviceId |-> app.deviceId,
                   showDeviceRegistration |-> FALSE, listening |-> TRUE]
        /\ sm' = IF in THEN MountedSM(sm.gen + 1) ELSE FreshSM(sm.gen + 1)
        /\ initPending' = in
  /\ monitor' = MountedMonitor
  /\ shot' = [FreshShot EXCEPT !.time = shot.time, !.flag = shot.flag]
  /\ UNCHANGED << now, sessions, logs, devices, ls, authStore, failures, hist >>


\* ------------------------------------------- SessionManager.initSession
\* state after the setState calls of a handler of instance g
SMBy(g, s2) == IF Live(g) THEN s2 ELSE sm

\* an initSession that ignores the props and always looks the session up
InitStartRequery ==
  /\ initPending /\ sm.mounted /\ HasFreeInit
  /\ initPending' = FALSE
  /\ init' = [init EXCEPT ![FreeSlot(init, InitIds)] =
               [IdleInit EXCEPT !.pc = "list", !.gen = sm.gen, !.userId = app.userId,
                                !.shown = sm.notificationShown,
                                !.sessCost = sm.sessionCost]]
  /\ sm' = [sm EXCEPT !.loading = TRUE]
  /\ UNCHANGED << now, sessions, logs, devices, app, ls, authStore, monitor, shot, tick, poll,
                  login, logout, ext, logoutTimers, reloadTimers, failures, hist >>

\* the effect body up to its first await
InitStart ==
  /\ initPending /\ sm.mounted /\ HasFreeInit
  /\ initPending' = FALSE
  /\ LET i == FreeSlot(init, InitIds)
         prop == app.activeSessionData
         p == [IdleInit EXCEPT !.gen = sm.gen, !.userId = app.userId,
                               !.shown = sm.notificationShown,
                               !.sessCost = sm.sessionCost]
     IN IF app.hasActiveSession /\ prop.id # NoId
        THEN /\ init' = [init EXCEPT ![i] =
                          IF prop.rec.device # NoDevice
                          THEN [p EXCEPT !.pc = "adoptCost", !.s = prop]
                          ELSE DoneInit]
             /\ sm' = Refilter(
                        [sm EXCEPT !.sessionId = prop.id,
                                   !.inTime = IF prop.rec.in_time # NoTime THEN prop.rec.in_time ELSE @,
                                   !.outTime = IF prop.rec.out_time # NoTime THEN prop.rec.out_time ELSE @,
                                   !.isSessionActive = TRUE,
                                   !.loading = (prop.rec.device # NoDevice)])
        ELSE /\ init' = [init EXCEPT ![i] = [p EXCEPT !.pc = "list"]]
             /\ sm' = [sm EXCEPT !.loading = TRUE]
  /\ UNCHANGED << now, sessions, logs, devices, app, ls, authStore, monitor, shot, tick, poll,
                  login, logout, ext, logoutTimers, reloadTimers, failures, hist >>

\* setState calls of fetchDeviceGroupAndCalculateCost, followed by
\* "if the session already has a session_total, use that instead"
CostState(s0, dev, cd, res, total) ==
  [s0 EXCEPT !.deviceInfo = IF res = "fail" THEN @ ELSE dev,
             !.sessionCost = IF total > 0 THEN total ELSE cd.finalCost]

\* props branch: await fetchDeviceGroupAndCalculateCost(sessionDataProp.device, ...)
InitAdoptCost(i) ==
  /\ ~initPending
  /\ init[i].pc = "adoptCost"
  /\ \E res \in CostOutcomes :
       LET p == init[i]
           cd == fetchDeviceGroupAndCalculateCost(p.s.rec.device, StoredDuration(p.s.rec), now, res)
           s2 == [CostState(sm, p.s.rec.device, cd, res, p.s.rec.session_total)
                    EXCEPT !.loading = FALSE]
       IN /\ Charge(res = "ok")
          /\ Commit(SMBy(p.gen, s2), app, FALSE, Live(p.gen) /\ res # "fail")
  /\ init' = [init EXCEPT ![i] = DoneInit]
  /\ UNCHANGED << now, sessions, logs, devices, ls, authStore, monitor, shot, tick, poll, login,
                  logout, ext, logoutTimers, reloadTimers, hist >>

\* checkExistingSession, lines 676-705: the status branch after the session
\* was taken from the list (t is the clock when the branch runs)
StatusState(s0, rec, t) ==
  [s0 EXCEPT !.isSessionActive =
     IF rec.status \in OpenStatuses THEN ~(t > rec.out_time) ELSE FALSE]

\* initSession after checkExistingSession returned session p.s: the expiry
\* logic of lines 1227-1381, decided with the clock p.nowRead and the
\* notificationShown and sessionCost of the effect's closure
InitMain(i, p, s2, devSet, h) ==
  LET rec == p.s.rec
      key == << p.s.id, rec.out_time >>
      diffMs == rec.out_time - p.nowRead
      diffMinutes == diffMs \div OneMinute
      yest == isYesterday(p.nowRead, rec.out_time)
      notify == diffMs <= 0 /\ ~p.shown
      soon == ~(diffMs <= 0 /\ yest) /\ diffMinutes <= 5 /\ ~p.shown
      next == IF diffMs <= 0 /\ yest
              THEN IF rec.status # "Closed" THEN "close" ELSE "done"
              ELSE IF diffMinutes <= 5 THEN "done"
              ELSE IF rec.status \notin {"Active", "Booked", "Extended"} THEN "activate"
              ELSE "done"
      s3 == [s2 EXCEPT !.notificationShown = IF notify \/ soon THEN TRUE ELSE @,
                       !.loading = IF next = "done" THEN FALSE ELSE @]
  IN /\ init' = [init EXCEPT ![i] = IF next = "done" THEN DoneInit ELSE [p EXCEPT !.pc = next]]
     /\ logoutTimers' = IF notify THEN [logoutTimers EXCEPT !.init = @ + 1] ELSE logoutTimers
     /\ hist' = [h EXCEPT !.ended = IF notify THEN Append(@, key) ELSE @,
                          !.timers = IF notify THEN Append(@, key) ELSE @,
                          !.soon = IF soon THEN @ \cup {diffMs} ELSE @,
                          !.sameDaySeen = IF diffMs <= 0 /\ ~yest
                                          THEN @ \cup {"init"} ELSE @]
     /\ Commit(SMBy(p.gen, s3), app, FALSE, devSet /\ Live(p.gen))

\* initSession after checkExistingSession returned, up to the next await
InitAfterCheck(i, p, s2, devSet, h) ==
  LET q == [p EXCEPT !.nowRead = now]
  IN IF q.s.rec.session_total <= 0 /\ q.s.rec.device # NoDevice
     THEN /\ init' = [init EXCEPT ![i] = [q EXCEPT !.pc = "initCost"]]
          /\ Commit(SMBy(p.gen, s2), app, FALSE, devSet /\ Live(p.gen))
          /\ hist' = h
          /\ UNCHANGED logoutTimers
     ELSE InitMain(i, q,
                   [s2 EXCEPT !.sessionCost =
                      IF q.s.rec.session_total > 0 THEN q.s.rec.session_total ELSE @],
                   devSet, h)

\* checkExistingSession: await getList(1, 1, '-created', filter) and the
\* code up to the next await; with no session, initSession decides on
\* createSession
InitList(i) ==
  /\ ~initPending
  /\ init[i].pc = "list"
  /\ \E ok \in Outcomes :
       LET p == init[i]
           allSessions == getList([object |-> FALSE, filter |-> LocalDevice], ok)
           open == OpenFor(LocalDevice) # {}
       IN /\ Charge(ok)
          /\ IF allSessions = << >>
             THEN /\ hist' = [hist EXCEPT !.creations =
                                @ \cup {[open |-> open, user |-> p.userId # NoUser,
                                         called |-> p.userId # NoUser]}]
                  /\ init' = [init EXCEPT ![i] =
                               IF p.userId # NoUser
                               THEN [p EXCEPT !.pc = "csDev", !.nowRead = now,
                                              !.dev = LocalDevice]
                               ELSE DoneInit]
                  /\ Commit(SMBy(p.gen, [sm EXCEPT !.loading = (p.userId # NoUser)]),
                            app, FALSE, FALSE)
                  /\ UNCHANGED logoutTimers
             ELSE LET q == [p EXCEPT !.s = Snap(allSessions[1])]
                      rec == q.s.rec
                      s2 == [sm EXCEPT !.sessionId = q.s.id, !.inTime = rec.in_time,
                                       !.outTime = rec.out_time]
                      h == [hist EXCEPT
                              !.found = @ \cup
                                {[id |-> q.s.id, device |-> rec.device, status |-> rec.status]},
                              !.creations = @ \cup
                                {[open |-> open, user |-> p.userId # NoUser, called |-> FALSE]}]
                  IN IF rec.status \in {"Booked", "Occupied"}
                     THEN /\ init' = [init EXCEPT ![i] = [q EXCEPT !.pc = "promote"]]
                          /\ hist' = h
                          /\ Commit(SMBy(p.gen, s2), app, FALSE, FALSE)
                          /\ UNCHANGED logoutTimers
                     ELSE IF rec.device # NoDevice
                     THEN /\ init' = [init EXCEPT ![i] = [q EXCEPT !.pc = "cesCost"]]
                          /\ hist' = h
                          /\ Commit(SMBy(p.gen, StatusState(s2, rec, now)), app, FALSE, FALSE)
                          /\ UNCHANGED logoutTimers
                     ELSE InitAfterCheck(i, q, StatusState(s2, rec, now), FALSE, h)
  /\ UNCHANGED << now, sessions, logs, devices, ls, authStore, monitor, shot, tick, poll, login,
                  logout, ext, reloadTimers >>


\* observation of an update that sets status to Active
NoteActive(h, w, snap) ==
  [h EXCEPT !.activeWrites = @ \cup
     {[writer |-> w, read |-> snap.rec.status, stored |-> sessions[snap.id].status,
       valid |-> sessions[snap.id].out_time > now]}]

\* checkExistingSession: await update(session.id, {status: "Active"}) for a
\* Booked or Occupied session, then the rest of the status branch
InitPromote(i) ==
  /\ ~initPending
  /\ init[i].pc = "promote"
  /\ \E ok \in Outcomes :
       LET p == init[i]
           rec == p.s.rec
           h == IF ok THEN NoteActive(hist, "discovery", p.s) ELSE hist
       IN /\ Charge(ok)
          /\ sessions' = IF ok THEN [sessions EXCEPT ![p.s.id].status = "Active"]
                         ELSE sessions
          /\ IF rec.device # NoDevice
             THEN /\ init' = [init EXCEPT ![i].pc = "cesCost"]
                  /\ hist' = h
                  /\ Commit(SMBy(p.gen, StatusState(sm, rec, now)), app, FALSE, FALSE)
                  /\ UNCHANGED logoutTimers
             ELSE InitAfterCheck(i, p, StatusState(sm, rec, now), FALSE, h)
  /\ UNCHANGED << now, logs, devices, ls, authStore, monitor, shot, tick, poll, login, logout,
                  ext, reloadTimers >>

\* checkExistingSession: await fetchDeviceGroupAndCalculateCost(session.device, ...),
\* return session; initSession goes on to its next await
InitCesCost(i) ==
  /\ ~initPending
  /\ init[i].pc = "cesCost"
  /\ \E res \in CostOutcomes :
       LET p == init[i]
           rec == p.s.rec
           cd == fetchDeviceGroupAndCalculateCost(rec.device, StoredDuration(rec), now, res)
       IN /\ Charge(res = "ok")
          /\ InitAfterCheck(i, p, CostState(sm, rec.device, cd, res, rec.session_total),
                            res # "fail", hist)
  /\ UNCHANGED << now, sessions, logs, devices, ls, authStore, monitor, shot, tick, poll, login,
                  logout, ext, reloadTimers >>

\* initSession: await fetchDeviceGroupAndCalculateCost(existingSession.device, ...)
\* for a session without a cost, then the expiry logic
InitCost(i) ==
  /\ ~initPending
  /\ init[i].pc = "initCost"
  /\ \E res \in CostOutcomes :
       LET p == init[i]
           rec == p.s.rec
           cd == fetchDeviceGroupAndCalculateCost(rec.device, StoredDuration(rec), now, res)
       IN /\ Charge(res = "ok")
          /\ InitMain(i, p, CostState(sm, rec.device, cd, res, 0), res # "fail", hist)
  /\ UNCHANGED << now, sessions, logs, devices, ls, authStore, monitor, shot, tick, poll, login,
                  logout, ext, reloadTimers >>

\* initSession: await update(existingSession.id, {status: 'Closed', amount_paid,
\* discount_amount: 0, discount_rate: 0}) with cost = sessionCost ||
\* existingSession.session_total || 0
InitClose(i) ==
  /\ ~initPending
  /\ init[i].pc = "close"
  /\ \E ok \in Outcomes :
       LET p == init[i]
           cost == IF p.sessCost # 0 THEN p.sessCost ELSE p.s.rec.session_total
       IN /\ Charge(ok)
          /\ sessions' = IF ok
                         THEN [sessions EXCEPT ![p.s.id] =
                                 [@ EXCEPT !.status = "Closed", !.amount_paid = cost,
                                           !.discount_amount = 0, !.discount_rate = 0]]
                         ELSE sessions
          /\ hist' = IF ok
                     THEN [NoteReconciled(NoteSameDay(hist, p.s.id, "init"), "init",
                                          sessions[p.s.id],
                                          [sessions[p.s.id] EXCEPT
                                             !.status = "Closed", !.amount_paid = cost,
                                             !.discount_amount = 0, !.discount_rate = 0])
                             EXCEPT !.closedWrites = Append(@, << p.s.id, "init" >>)]
                     ELSE hist
          /\ init' = [init EXCEPT ![i] = [p EXCEPT !.pc = "closeLog", !.cost =
                                            [ZeroCost EXCEPT !.finalCost = cost]]]
  /\ UNCHANGED << now, logs, devices, app, ls, authStore, monitor, shot, sm, tick, poll, login,
                  logout, ext, initPending, logoutTimers, reloadTimers >>

\* initSession: await session_logs.create({type: 'Closed'})
InitCloseLog(i) ==
  /\ ~initPending
  /\ init[i].pc = "closeLog"
  /\ \E ok \in Outcomes :
       LET p == init[i]
           more == ok /\ p.s.rec.device # NoDevice
       IN /\ Charge(ok)
          /\ logs' = IF ok THEN Append(logs, ClosedLog(p.s.id, p.cost.finalCost)) ELSE logs
          /\ hist' = IF ok THEN NoteSameDay(hist, p.s.id, "init") ELSE hist
          /\ init' = [init EXCEPT ![i] = IF more THEN [p EXCEPT !.pc = "closeDev"] ELSE DoneInit]
          /\ sm' = IF more THEN sm ELSE SMBy(p.gen, [sm EXCEPT !.loading = FALSE])
  /\ UNCHANGED << now, sessions, devices, app, ls, authStore, monitor, shot, tick, poll, login,
                  logout, ext, initPending, logoutTimers, reloadTimers >>

\* initSession: await devices.update(deviceId, {Available, '', ''})
InitCloseDev(i) ==
  /\ ~initPending
  /\ init[i].pc = "closeDev"
  /\ \E ok \in Outcomes :
       LET p == init[i]
       IN /\ Charge(ok)
          /\ devices' = IF ok THEN [devices EXCEPT ![p.s.rec.device] = Released] ELSE devices
          /\ hist' = IF ok THEN NoteSameDay(hist, p.s.id, "init") ELSE hist
          /\ sm' = SMBy(p.gen, [sm EXCEPT !.loading = FALSE])
  /\ init' = [init EXCEPT ![i] = DoneInit]
  /\ UNCHANGED << now, sessions, logs, app, ls, authStore, monitor, shot, tick, poll, login,
                  logout, ext, initPending, logoutTimers, reloadTimers >>

\* initSession: await update(existingSession.id, {status: "Active"}) for a
\* session with more than 5 minutes left whose status is none of Active,
\* Booked, Extended
InitActivate(i) ==
  /\ ~initPending
  /\ init[i].pc = "activate"
  /\ \E ok \in Outcomes :
       LET p == init[i]
       IN /\ Charge(ok)
          /\ sessions' = IF ok THEN [sessions EXCEPT ![p.s.id].status = "Active"]
                         ELSE sessions
          /\ hist' = IF ok THEN NoteActive(hist, "init", p.s) ELSE hist
          /\ sm' = SMBy(p.gen, [sm EXCEPT !.loading = FALSE])
  /\ init' = [init EXCEPT ![i] = DoneInit]
  /\ UNCHANGED << now, logs, devices, app, ls, authStore, monitor, shot, tick, poll, login,
                  logout, ext, initPending, logoutTimers, reloadTimers >>


\* ------------------------------------------- SessionManager.createSession
\* await devices.getOne(deviceId); a rejection is caught and ignored
CsDev(i) ==
  /\ ~initPending
  /\ init[i].pc = "csDev"
  /\ \E ok \in Outcomes :
       LET p == init[i]
       IN /\ Charge(ok)
          /\ IF ok /\ Live(p.gen)
             THEN Commit([sm EXCEPT !.deviceInfo = p.dev], app, FALSE, TRUE)
             ELSE Commit(sm, app, FALSE, FALSE)
          /\ init' = [init EXCEPT ![i].pc = "csCost", ![i].devFailed = ~ok]
  /\ UNCHANGED << now, sessions, logs, devices, ls, authStore, monitor, shot, tick, poll, login,
                  logout, ext, logoutTimers, reloadTimers, hist >>

\* await fetchDeviceGroupAndCalculateCost(deviceId, 1)
CsCost(i) ==
  /\ ~initPending
  /\ init[i].pc = "csCost"
  /\ \E res \in CostOutcomes :
       LET p == init[i]
           cd == fetchDeviceGroupAndCalculateCost(p.dev, OneHour, now, res)
       IN /\ Charge(res = "ok")
          /\ init' = [init EXCEPT ![i] = [p EXCEPT !.pc = "csCreate", !.cost = cd]]
          /\ Commit(SMBy(p.gen, CostState(sm, p.dev, cd, res, 0)), app, FALSE,
                    Live(p.gen) /\ res # "fail")
  /\ UNCHANGED << now, sessions, logs, devices, ls, authStore, monitor, shot, tick, poll, login,
                  logout, ext, logoutTimers, reloadTimers, hist >>

\* a createSession whose default duration is two hours
NewSessionTwoHours(p) ==
  [device |-> p.dev, status |-> "Active", in_time |-> p.nowRead,
   out_time |-> p.nowRead + 2 * OneHour, duration |-> 60,
   session_total |-> p.cost.finalCost, total_amount |-> p.cost.finalCost,
   amount_paid |-> 0, discount_amount |-> p.cost.discountAmount,
   discount_rate |-> p.cost.discountRate]

\* the record createSession sends: in_time is the clock at its start
NewSession(p) ==
  [device |-> p.dev, status |-> "Active", in_time |-> p.nowRead,
   out_time |-> p.nowRead + OneHour, duration |-> 60,
   session_total |-> p.cost.finalCost, total_amount |-> p.cost.finalCost,
   amount_paid |-> 0, discount_amount |-> p.cost.discountAmount,
   discount_rate |-> p.cost.discountRate]

\* await create(sessionData); the hook returns null on a rejection and
\* createSession gives up
CsCreate(i) ==
  /\ ~initPending
  /\ init[i].pc = "csCreate"
  /\ \E ok \in Outcomes :
       LET p == init[i]
           rec == NewSession(p)
       IN /\ Charge(ok)
          /\ IF ok
             THEN /\ sessions' = Append(sessions, rec)
                  /\ init' = [init EXCEPT ![i] =
                               [p EXCEPT !.pc = "csLog", !.s = [id |-> Len(sessions) + 1, rec |-> rec]]]
                  /\ sm' = SMBy(p.gen, Refilter([sm EXCEPT !.sessionId = Len(sessions) + 1,
                                                           !.inTime = rec.in_time,
                                                           !.outTime = rec.out_time,
                                                           !.isSessionActive = TRUE]))
                  /\ hist' = [hist EXCEPT !.created = @ \cup
                                {[id |-> Len(sessions) + 1, rec |-> rec,
                                  devFailed |-> p.devFailed]}]
             ELSE /\ UNCHANGED << sessions, hist >>
                  /\ init' = [init EXCEPT ![i] = DoneInit]
                  /\ sm' = SMBy(p.gen, [sm EXCEPT !.loading = FALSE])
  /\ UNCHANGED << now, logs, devices, app, ls, authStore, monitor, shot, tick, poll, login,
                  logout, ext, initPending, logoutTimers, reloadTimers >>

\* await session_logs.create({type: 'Create', session_amount: 0})
CsLog(i) ==
  /\ ~initPending
  /\ init[i].pc = "csLog"
  /\ \E ok \in Outcomes :
       LET p == init[i]
       IN /\ Charge(ok)
          /\ logs' = IF ok
                     THEN Append(logs, [session_id |-> p.s.id, type |-> "Create",
                                        session_amount |-> 0])
                     ELSE logs
          /\ sm' = SMBy(p.gen, [sm EXCEPT !.loading = FALSE])
  /\ init' = [init EXCEPT ![i] = DoneInit]
  /\ UNCHANGED << now, sessions, devices, app, ls, authStore, monitor, shot, tick, poll, login,
                  logout, ext, initPending, logoutTimers, reloadTimers, hist >>

\* --------------------------- SessionStateManager.checkForActiveSessions
\* App.handleSessionStateChange(isActive, sessionData)
onSessionStateChange(a, isActive, snap) ==
  Commit(sm, handleSessionStateChange(a, poll.isLoggedIn, isActive, snap),
         isActive, FALSE)

\* The interval and the first call are set up by the effect on [deviceId];
\* they call the checkForActiveSessions of the first render, whose
\* isClientApp is the initial state (poll.isClientApp).  The step is the
\* filtered getList and the code up to the next await.
PollList ==
  /\ ~initPending
  /\ poll.pc = "idle" /\ poll.runs < MaxPolls
  /\ \E ok \in Outcomes :
       LET id == IF ok THEN ListOpen(LocalDevice) ELSE NoId
           session == IF id # NoId THEN Snap(id) ELSE NoSnap
           valid == now < session.rec.out_time
           write == IF id = NoId THEN ""
                    ELSE IF valid THEN (IF session.rec.status # "Active" THEN "Active" ELSE "")
                    ELSE IF poll.isClientApp /\ session.rec.status # "Closed" THEN "Closed"
                    ELSE ""
       IN /\ Charge(ok)
          /\ IF write # ""
             THEN /\ poll' = [poll EXCEPT !.pc = "update", !.runs = @ + 1,
                                          !.s = session, !.status = write]
                  /\ UNCHANGED << sm, app, initPending >>
             ELSE /\ poll' = [poll EXCEPT !.runs = @ + 1]
                  /\ IF id # NoId /\ valid
                     THEN onSessionStateChange(app, TRUE, session)
                     ELSE onSessionStateChange(app, FALSE, NoSnap)
          /\ hist' = LET h == IF id # NoId /\ ~valid /\ write = ""
                                  THEN NoteReconciled(hist, "poll", session.rec, session.rec)
                                  ELSE hist
                     IN IF id # NoId /\ ExpiredSameDay(session.rec, now)
                        THEN [h EXCEPT !.sameDaySeen =
                               @ \cup {IF ls.client_app_login
                                       THEN "poll, client_app_login set" ELSE "poll"}]
                        ELSE h
  /\ UNCHANGED << now, sessions, logs, devices, ls, authStore, monitor, shot, tick, init, login,
                  logout, ext, logoutTimers, reloadTimers >>

\* await pbclient.collection('sessions').update(session.id, {status}) and
\* the rest of the branch: the promotion of a valid session, or the close
\* of an expired one for a client-app login
PollUpdate ==
  /\ ~initPending
  /\ poll.pc = "update"
  /\ \E ok \in Outcomes :
       LET closing == poll.status = "Closed"
       IN /\ Charge(ok)
          /\ sessions' = IF ok THEN [sessions EXCEPT ![poll.s.id].status = poll.status]
                         ELSE sessions
          /\ hist' = IF ~ok THEN hist
                     ELSE IF closing
                     THEN [NoteReconciled(NoteSameDay(hist, poll.s.id, "poll"), "poll",
                                          sessions[poll.s.id],
                                          [sessions[poll.s.id] EXCEPT !.status = "Closed"])
                             EXCEPT
                             !.closedWrites = Append(@, << poll.s.id, "poll" >>),
                             !.kioskRequests = @ + 1]
                     ELSE NoteActive(hist, "poll", poll.s)
          /\ authStore' = IF ok /\ closing THEN NoAuth ELSE authStore
          /\ ls' = IF ok /\ closing
                   THEN [user_login_info |-> FALSE, client_app_login |-> FALSE] ELSE ls
          /\ reloadTimers' = IF ok /\ closing THEN reloadTimers + 1 ELSE reloadTimers
          /\ IF closing
             THEN onSessionStateChange(IF ok THEN handleKioskModeEvent(app, TRUE) ELSE app,
                                       FALSE, NoSnap)
             ELSE onSessionStateChange(app, TRUE, poll.s)
  /\ poll' = [poll EXCEPT !.pc = "idle", !.s = NoSnap, !.status = ""]
  /\ UNCHANGED << now, logs, devices, monitor, shot, tick, init, login, logout, ext,
                  logoutTimers >>


\* ------------------------------------------------ App: the Logout button
\* the local part of the handler: logout(), setIsLoggedIn(false), the
\* localStorage entries removed, enable-kiosk-mode dispatched with force.
\* SessionManager is no longer rendered.
\* (the local part without localStorage.removeItem('user_login_info'))
LocalLogoutKeepingLoginInfo ==
  /\ authStore' = NoAuth
  /\ shot' = [shot EXCEPT !.mounted = FALSE, !.fetching = FALSE, !.polling = FALSE,
                          !.data = "none"]
  /\ UNCHANGED monitor
  /\ ls' = [ls EXCEPT !.client_app_login = FALSE]
  /\ app' = enableKioskMode(handleKioskModeEvent(
               [app EXCEPT !.isLoggedIn = FALSE, !.userId = NoUser], TRUE))
  /\ sm' = FreshSM(sm.gen)
  /\ initPending' = FALSE
  /\ logout' = [logout EXCEPT !.pc = "idle", !.s = NoSnap]

LocalLogout ==
  /\ authStore' = NoAuth
  /\ shot' = [shot EXCEPT !.mounted = FALSE, !.fetching = FALSE, !.polling = FALSE,
                          !.data = "none"]
  /\ UNCHANGED monitor
  /\ ls' = [user_login_info |-> FALSE, client_app_login |-> FALSE]
  /\ app' = enableKioskMode(handleKioskModeEvent(
               [app EXCEPT !.isLoggedIn = FALSE, !.userId = NoUser], TRUE))
  /\ sm' = FreshSM(sm.gen)
  /\ initPending' = FALSE
  /\ logout' = [logout EXCEPT !.pc = "idle", !.s = NoSnap]

LogoutClick ==
  /\ ~initPending
  /\ app.isLoggedIn /\ logout.pc = "idle" /\ logout.runs < MaxLogouts
  /\ IF ls.user_login_info
     THEN /\ logout' = [logout EXCEPT !.pc = "list", !.runs = @ + 1]
          /\ UNCHANGED << authStore, monitor, shot, ls, app, sm, initPending, hist >>
     ELSE /\ LocalLogout
          /\ hist' = [hist EXCEPT !.kioskRequests = @ + 1]
  /\ UNCHANGED << now, sessions, logs, devices, tick, init, poll, login, ext,
                  logoutTimers, reloadTimers, failures >>

\* await getList(1, 1, {filter, sort}) for the open session of the device
LogoutList ==
  /\ ~initPending
  /\ logout.pc = "list"
  /\ \E ok \in Outcomes :
       LET id == IF ok THEN ListOpen(LocalDevice) ELSE NoId
       IN /\ Charge(ok)
          /\ IF ok
             THEN /\ logout' = IF id # NoId
                               THEN [logout EXCEPT !.pc = "close", !.s = Snap(id)]
                               ELSE [logout EXCEPT !.pc = "dev"]
                  /\ UNCHANGED << authStore, monitor, shot, ls, app, sm, initPending, hist >>
             ELSE /\ LocalLogout
                  /\ hist' = [hist EXCEPT !.kioskRequests = @ + 1]
  /\ UNCHANGED << now, sessions, logs, devices, tick, init, poll, login, ext,
                  logoutTimers, reloadTimers >>

\* await update(session.id, {status: 'Closed', amount_paid: session_total, 0, 0})
LogoutClose ==
  /\ ~initPending
  /\ logout.pc = "close"
  /\ \E ok \in Outcomes :
       /\ Charge(ok)
       /\ IF ok
          THEN /\ sessions' = [sessions EXCEPT ![logout.s.id] =
                                 [@ EXCEPT !.status = "Closed",
                                           !.amount_paid = logout.s.rec.session_total,
                                           !.discount_amount = 0, !.discount_rate = 0]]
               /\ hist' = [hist EXCEPT !.closedWrites = Append(@, << logout.s.id, "logout" >>)]
               /\ logout' = [logout EXCEPT !.pc = "log"]
               /\ UNCHANGED << authStore, monitor, shot, ls, app, sm, initPending >>
          ELSE /\ LocalLogout
               /\ hist' = [hist EXCEPT !.kioskRequests = @ + 1]
               /\ UNCHANGED sessions
  /\ UNCHANGED << now, logs, devices, tick, init, poll, login, ext, logoutTimers,
                  reloadTimers >>

\* await session_logs.create({type: 'Closed', session_amount: session_total})
LogoutLog ==
  /\ ~initPending
  /\ logout.pc = "log"
  /\ \E ok \in Outcomes :
       /\ Charge(ok)
       /\ IF ok
          THEN /\ logs' = Append(logs, ClosedLog(logout.s.id, logout.s.rec.session_total))
               /\ logout' = [logout EXCEPT !.pc = "dev"]
               /\ UNCHANGED << authStore, monitor, shot, ls, app, sm, initPending, hist >>
          ELSE /\ LocalLogout
               /\ hist' = [hist EXCEPT !.kioskRequests = @ + 1]
               /\ UNCHANGED logs
  /\ UNCHANGED << now, sessions, devices, tick, init, poll, login, ext,
                  logoutTimers, reloadTimers >>

\* await devices.update(deviceId, {Available, '', ''}), then the local part
LogoutDev ==
  /\ ~initPending
  /\ logout.pc = "dev"
  /\ \E ok \in Outcomes :
       /\ Charge(ok)
       /\ devices' = IF ok THEN [devices EXCEPT ![LocalDevice] = Released] ELSE devices
  /\ LocalLogout
  /\ hist' = [hist EXCEPT !.kioskRequests = @ + 1]
  /\ UNCHANGED << now, sessions, logs, tick, init, poll, login, ext, logoutTimers,
                  reloadTimers >>

\* ------------------------------------------ SessionManager.extendSession
\* the click on Extend Session (enabled unless loading or !isSessionActive)
\* and the code up to the first await
extendSession ==
  /\ ~initPending
  /\ sm.mounted /\ ~sm.loading /\ sm.isSessionActive
  /\ ext.pc = "idle" /\ ext.runs < MaxExtends
  /\ sm.sessionId # NoId /\ sm.outTime # NoTime
  /\ LET newOutTime == sm.outTime + OneHour
     IN ext' = [pc |-> IF sm.deviceInfo # NoDevice THEN "cost" ELSE "update",
                runs |-> ext.runs + 1, gen |-> sm.gen, sid |-> sm.sessionId,
                newOut |-> newOutTime, dur |-> newOutTime - sm.inTime,
                infoDev |-> sm.deviceInfo, cost |-> sm.sessionCost,
                disc |-> 0, rate |-> 0, rejected |-> FALSE]
  /\ sm' = [sm EXCEPT !.loading = TRUE]
  /\ UNCHANGED << now, sessions, logs, devices, app, ls, authStore, monitor, shot, tick, init,
                  poll, login, logout, initPending, logoutTimers, reloadTimers,
                  failures, hist >>

\* await fetchDeviceGroupAndCalculateCost(deviceInfo.id, newDurationHours)
ExtCost ==
  /\ ~initPending
  /\ ext.pc = "cost"
  /\ \E res \in CostOutcomes :
       LET cd == fetchDeviceGroupAndCalculateCost(ext.infoDev, ext.dur, now, res)
       IN /\ Charge(res = "ok")
          /\ ext' = [ext EXCEPT !.pc = "update", !.cost = cd.finalCost,
                                !.disc = cd.discountAmount, !.rate = cd.discountRate]
          /\ Commit(SMBy(ext.gen, CostState(sm, ext.infoDev, cd, res, 0)), app, FALSE,
                    Live(ext.gen) /\ res # "fail")
  /\ UNCHANGED << now, sessions, logs, devices, ls, authStore, monitor, shot, tick, init, poll,
                  login, logout, logoutTimers, reloadTimers, hist >>

\* await update(sessionId, {out_time, status: 'Extended', duration, ...}); the
\* hook's update returns null on a rejection and the flow goes on
ExtUpdate ==
  /\ ~initPending
  /\ ext.pc = "update"
  /\ \E ok \in Outcomes :
       /\ Charge(ok)
       /\ sessions' = IF ok
                      THEN [sessions EXCEPT ![ext.sid] =
                              [@ EXCEPT !.out_time = ext.newOut, !.status = "Extended",
                                        !.duration = ext.dur \div OneMinute,
                                        !.session_total = ext.cost,
                                        !.total_amount = ext.cost,
                                        !.discount_amount = ext.disc,
                                        !.discount_rate = ext.rate]]
                      ELSE sessions
       /\ ext' = [ext EXCEPT !.pc = "log", !.rejected = ~ok]
  /\ UNCHANGED << now, logs, devices, app, ls, authStore, monitor, shot, sm, tick, init, poll,
                  login, logout, initPending, logoutTimers, reloadTimers, hist >>

\* await session_logs.create({type: 'Extended', session_amount: 0}), then
\* setOutTime(newOutTime), setIsSessionActive(true)
ExtLog ==
  /\ ~initPending
  /\ ext.pc = "log"
  /\ \E ok \in Outcomes :
       /\ Charge(ok)
       /\ logs' = IF ok
                  THEN Append(logs, [session_id |-> ext.sid, type |-> "Extended",
                                     session_amount |-> 0])
                  ELSE logs
       /\ sm' = SMBy(ext.gen,
                     IF ok THEN [sm EXCEPT !.outTime = ext.newOut, !.isSessionActive = TRUE,
                                           !.loading = FALSE]
                     ELSE [sm EXCEPT !.loading = FALSE])
       /\ hist' = IF ~ok THEN hist
                  ELSE IF ext.rejected
                  THEN NoteRejected(hist, TRUE,
                         {"Extended log"} \cup
                         (IF Live(ext.gen) /\ sm.outTime # ext.newOut THEN {"outTime"} ELSE {}))
                  ELSE [hist EXCEPT !.extended = Append(@, ext.sid)]
  /\ ext' = [IdleExt EXCEPT !.runs = ext.runs]
  /\ UNCHANGED << now, sessions, devices, app, ls, authStore, monitor, shot, tick, init, poll,
                  login, logout, initPending, logoutTimers, reloadTimers >>

\* ------------------------------------------------------------------- Spec
\* The expiry classification of updateRemainingTime, asked for a clock t and
\* an out_time end.
Classify(t, end) ==
  /\ ~hist.expiry.asked
  /\ hist' = [hist EXCEPT !.expiry =
                [asked |-> TRUE, t |-> t, end |-> end,
                 isYesterday |-> isYesterday(t, end)]]
  /\ UNCHANGED << now, sessions, logs, devices, app, ls, authStore, monitor, shot,
                  sm, tick, init, poll, login, logout, ext, initPending,
                  logoutTimers, reloadTimers, failures >>

Next ==
  \/ AdvanceTime
  \/ handleLogin
  \/ handleLoginList
  \/ updateRemainingTime
  \/ \E i \in TickIds : TickCost(i)
  \/ \E i \in TickIds : TickUpdate(i)
  \/ \E i \in TickIds : TickLog(i)
  \/ \E i \in TickIds : TickDevice(i)
  \/ \E k \in {"tick", "init"} : LogoutTimerFire(k)
  \/ Reload
  \/ InitStart
  \/ \E i \in InitIds : InitAdoptCost(i)
  \/ \E i \in InitIds : InitList(i)
  \/ \E i \in InitIds : InitPromote(i)
  \/ \E i \in InitIds : InitCesCost(i)
  \/ \E i \in InitIds : InitCost(i)
  \/ \E i \in InitIds : InitClose(i)
  \/ \E i \in InitIds : InitCloseLog(i)
  \/ \E i \in InitIds : InitCloseDev(i)
  \/ \E i \in InitIds : InitActivate(i)
  \/ \E i \in InitIds : CsDev(i)
  \/ \E i \in InitIds : CsCost(i)
  \/ \E i \in InitIds : CsCreate(i)
  \/ \E i \in InitIds : CsLog(i)
  \/ PollList
  \/ PollUpdate
  \/ \E f \in {NoId} \cup SessionIds : RtFetched(f)
  \/ \E s \in SessionIds : RtEvent(s)
  \/ DeviceInfoLoaded
  \/ LogoutClick
  \/ LogoutList
  \/ LogoutClose
  \/ LogoutLog
  \/ LogoutDev
  \/ extendSession
  \/ ExtCost
  \/ ExtUpdate
  \/ ExtLog
  \/ \E force \in BOOLEAN : KioskEvent(force)
  \/ \E token \in DeviceTokens \cup {NoToken} : DeviceTokenWritten(token)
  \/ IntervalCheck
  \/ AppRendered
  \/ \E i \in CheckIds : CheckGetOne(i)
  \/ \E i \in CheckIds : CheckClients(i)
  \/ \E i \in CheckIds : CheckUsers(i)
  \/ ShotMount
  \/ ShotFetched
  \/ RequestScreenshot
  \/ ShotInterval
  \/ ShotClock
  \/ \E i \in ShotIds : ShotGetOne(i)
  \/ \E i \in ShotIds : ShotCapture(i)
  \/ \E i \in ShotIds : ShotUpload(i)
  \/ \E i \in ShotIds : ShotReset(i)
  \/ \E i \in ShotIds : ShotErrorReset(i)
  \/ \E t \in Times, end \in Times : Classify(t, end)
  \/ SessionCreatedElsewhere
  \/ AppEffect
  \/ \E i \in KioskCallIds, kind \in {"enable", "disable"} : KioskCall(i, kind)
  \/ \E i \in KioskCallIds : KioskStep(i)

Spec == Init /\ [][Next]_vars

\* -------------------------------------------------------------- scenarios
\* Each scenario is a part of Spec: it starts in states of Init and takes
\* steps of Next, restricted to the handlers and the schedules named here.

\* a step in which no store call is rejected
Reliable(A) == A /\ failures' = failures

\* a step that leaves the second close flow of updateRemainingTime unused
OneClose(A) == A /\ tick'[2].pc = "idle"

\* the store holds one session of the local device with a status of st and
\* the clock shows 30 minutes before its out_time
Seed(st) ==
  Init /\ now = DayLen - 80 /\ Len(sessions) = 1 /\ sessions[1].status \in st

\* Login, the initSession effect and the poll, at a fixed clock, from every
\* seed; one store call may be rejected.
DiscoveryNext ==
  \/ handleLogin
  \/ handleLoginList
  \/ InitStart
  \/ \E i \in InitIds : InitAdoptCost(i)
  \/ \E i \in InitIds : InitList(i)
  \/ \E i \in InitIds : InitPromote(i)
  \/ \E i \in InitIds : InitCesCost(i)
  \/ \E i \in InitIds : InitCost(i)
  \/ \E i \in InitIds : InitClose(i)
  \/ \E i \in InitIds : InitCloseLog(i)
  \/ \E i \in InitIds : InitCloseDev(i)
  \/ \E i \in InitIds : InitActivate(i)
  \/ \E i \in InitIds : CsDev(i)
  \/ \E i \in InitIds : CsCost(i)
  \/ \E i \in InitIds : CsCreate(i)
  \/ \E i \in InitIds : CsLog(i)
  \/ PollList
  \/ PollUpdate

SpecDiscovery == Init /\ [][DiscoveryNext]_vars

\* The same handlers when the store rejects no call.
ReliableDiscoveryNext ==
  \/ Reliable(handleLogin)
  \/ Reliable(handleLoginList)
  \/ Reliable(InitStart)
  \/ \E i \in InitIds : Reliable(InitAdoptCost(i))
  \/ \E i \in InitIds : Reliable(InitList(i))
  \/ \E i \in InitIds : Reliable(InitPromote(i))
  \/ \E i \in InitIds : Reliable(InitCesCost(i))
  \/ \E i \in InitIds : Reliable(InitCost(i))
  \/ \E i \in InitIds : Reliable(InitClose(i))
  \/ \E i \in InitIds : Reliable(InitCloseLog(i))
  \/ \E i \in InitIds : Reliable(InitCloseDev(i))
  \/ \E i \in InitIds : Reliable(InitActivate(i))
  \/ \E i \in InitIds : Reliable(CsDev(i))
  \/ \E i \in InitIds : Reliable(CsCost(i))
  \/ \E i \in InitIds : Reliable(CsCreate(i))
  \/ \E i \in InitIds : Reliable(CsLog(i))
  \/ Reliable(PollList)
  \/ Reliable(PollUpdate)

SpecReliableDiscovery == Init /\ [][ReliableDiscoveryNext]_vars

\* the clock passes 5.5 minutes before out_time, out_time on the same day, and
\* the next day; one close flow, no rejected store call
InTick(A) ==
  Reliable(OneClose(A))
    /\ now' \in {DayLen - 80, DayLen - 31, DayLen - 19, DayLen + 10}

\* An Active session runs out while the user is logged in or logs in.
TickNext ==
  \/ InTick(AdvanceTime)
  \/ InTick(handleLogin)
  \/ InTick(handleLoginList)
  \/ InTick(updateRemainingTime)
  \/ \E i \in TickIds : InTick(TickCost(i))
  \/ \E i \in TickIds : InTick(TickUpdate(i))
  \/ \E i \in TickIds : InTick(TickLog(i))
  \/ \E i \in TickIds : InTick(TickDevice(i))
  \/ \E k \in {"tick", "init"} : InTick(LogoutTimerFire(k))
  \/ InTick(Reload)
  \/ InTick(InitStart)
  \/ \E i \in InitIds : InTick(InitAdoptCost(i))
  \/ \E i \in InitIds : InTick(InitList(i))
  \/ \E i \in InitIds : InTick(InitCesCost(i))
  \/ \E i \in InitIds : InTick(InitClose(i))
  \/ \E i \in InitIds : InTick(InitCloseLog(i))
  \/ \E i \in InitIds : InTick(InitCloseDev(i))

SpecTick == Seed({"Active"}) /\ [][TickNext]_vars

\* the store holds an Active session of the local device whose out_time is
\* 00:02:30 and, created after it, an Active session of another device whose
\* out_time is 23:55 of the day before; the clock shows 00:05
SameDayStart ==
  Init /\ now = DayLen + 10 /\ Len(sessions) = 2 /\ sessions[1].out_time = DayLen + 5

\* one close flow, no rejected store call
InSameDay(A) == Reliable(OneClose(A))

\* The user logs in while the session of the device is a same-day expiry:
\* the login lookup, the props branch of initSession, the realtime hook, the
\* tick and the poll.
SameDayNext ==
  \/ InSameDay(handleLogin)
  \/ InSameDay(handleLoginList)
  \/ InSameDay(updateRemainingTime)
  \/ \E i \in TickIds : InSameDay(TickCost(i))
  \/ \E i \in TickIds : InSameDay(TickUpdate(i))
  \/ \E i \in TickIds : InSameDay(TickLog(i))
  \/ \E i \in TickIds : InSameDay(TickDevice(i))
  \/ InSameDay(InitStart)
  \/ \E i \in InitIds : InSameDay(InitAdoptCost(i))
  \/ InSameDay(PollList)
  \/ \E f \in {NoId} \cup SessionIds : InSameDay(RtFetched(f))
  \/ \E s \in SessionIds : InSameDay(RtEvent(s))
  \/ InSameDay(DeviceInfoLoaded)

SpecSameDay == SameDayStart /\ [][SameDayNext]_vars

\* the clock jumps to the next day while no run of initSession is in flight;
\* two close flows, no rejected store call
InClose(A) ==
  Reliable(A) /\ now' \in {DayLen - 80, DayLen + 10}
    /\ (now' # now => \A i \in InitIds : init[i].pc \in {"idle", "done"})

\* A session is carried over into the next day while the user is logged in.
CloseNext ==
  \/ InClose(AdvanceTime)
  \/ InClose(handleLogin)
  \/ InClose(handleLoginList)
  \/ InClose(updateRemainingTime)
  \/ \E i \in TickIds : InClose(TickCost(i))
  \/ \E i \in TickIds : InClose(TickUpdate(i))
  \/ \E i \in TickIds : InClose(TickLog(i))
  \/ \E i \in TickIds : InClose(TickDevice(i))
  \/ InClose(InitStart)
  \/ \E i \in InitIds : InClose(InitAdoptCost(i))
  \/ \E i \in InitIds : InClose(InitList(i))
  \/ \E i \in InitIds : InClose(InitCesCost(i))

SpecClose == Seed({"Active"}) /\ [][CloseNext]_vars

\* The poll, Extend Session and Logout on a valid session, at a fixed clock.
RaceNext ==
  \/ Reliable(handleLogin)
  \/ Reliable(handleLoginList)
  \/ Reliable(InitStart)
  \/ \E i \in InitIds : Reliable(InitAdoptCost(i))
  \/ \E i \in InitIds : Reliable(InitList(i))
  \/ \E i \in InitIds : Reliable(InitCesCost(i))
  \/ Reliable(PollList)
  \/ Reliable(PollUpdate)
  \/ Reliable(LogoutClick)
  \/ Reliable(LogoutList)
  \/ Reliable(LogoutClose)
  \/ Reliable(LogoutLog)
  \/ Reliable(LogoutDev)
  \/ Reliable(extendSession)
  \/ Reliable(ExtCost)
  \/ Reliable(ExtUpdate)
  \/ Reliable(ExtLog)

SpecRace == Seed({"Extended"}) /\ [][RaceNext]_vars

\* the store holds an Active session of the local device whose out_time is
\* 23:50 of the day before; the clock shows 00:05
TriggersStart ==
  Init /\ now = DayLen + 10 /\ Len(sessions) = 1 /\ sessions[1].status = "Active"

\* The user logs in while the session of the device is carried over from the
\* day before: the poll, the tick and initSession examine it; one close flow
\* of the tick, no rejected store call.
TriggersNext ==
  \/ InSameDay(handleLogin)
  \/ InSameDay(handleLoginList)
  \/ InSameDay(updateRemainingTime)
  \/ \E i \in TickIds : InSameDay(TickCost(i))
  \/ \E i \in TickIds : InSameDay(TickUpdate(i))
  \/ \E i \in TickIds : InSameDay(TickLog(i))
  \/ \E i \in TickIds : InSameDay(TickDevice(i))
  \/ InSameDay(InitStart)
  \/ \E i \in InitIds : InSameDay(InitAdoptCost(i))
  \/ \E i \in InitIds : InSameDay(InitList(i))
  \/ \E i \in InitIds : InSameDay(InitCesCost(i))
  \/ \E i \in InitIds : InSameDay(InitClose(i))
  \/ \E i \in InitIds : InSameDay(InitCloseLog(i))
  \/ \E i \in InitIds : InSameDay(InitCloseDev(i))
  \/ InSameDay(PollList)

SpecTriggers == TriggersStart /\ [][TriggersNext]_vars

\* the store holds an Active session of the local device whose out_time,
\* 23:50, has just passed: the clock shows 23:50:30
TeardownStart ==
  Init /\ now = DayLen - 19 /\ Len(sessions) = 1 /\ sessions[1].status = "Active"

\* The user logs in, the session is announced as ended, the user clicks
\* Logout while the 5-second timer is pending; no rejected store call.
TeardownNext ==
  \/ InSameDay(handleLogin)
  \/ InSameDay(handleLoginList)
  \/ InSameDay(InitStart)
  \/ \E i \in InitIds : InSameDay(InitAdoptCost(i))
  \/ \E i \in InitIds : InSameDay(InitList(i))
  \/ \E i \in InitIds : InSameDay(InitCesCost(i))
  \/ InSameDay(updateRemainingTime)
  \/ \E k \in {"tick", "init"} : InSameDay(LogoutTimerFire(k))
  \/ InSameDay(Reload)
  \/ InSameDay(LogoutClick)
  \/ InSameDay(LogoutList)
  \/ InSameDay(LogoutClose)
  \/ InSameDay(LogoutLog)
  \/ InSameDay(LogoutDev)

SpecTeardown == TeardownStart /\ [][TeardownNext]_vars

\* one close flow of the tick; a store call may be rejected
MayReject(A) == OneClose(A)

\* The session is carried over from the day before: the user logs in, the
\* tick closes the session, the user clicks Extend Session, and the store
\* rejects one call.
RejectedNext ==
  \/ MayReject(handleLogin)
  \/ MayReject(handleLoginList)
  \/ MayReject(InitStart)
  \/ \E i \in InitIds : MayReject(InitAdoptCost(i))
  \/ MayReject(updateRemainingTime)
  \/ \E i \in TickIds : MayReject(TickCost(i))
  \/ \E i \in TickIds : MayReject(TickUpdate(i))
  \/ \E i \in TickIds : MayReject(TickLog(i))
  \/ \E i \in TickIds : MayReject(TickDevice(i))
  \/ MayReject(extendSession)
  \/ MayReject(ExtCost)
  \/ MayReject(ExtUpdate)
  \/ MayReject(ExtLog)

SpecRejected == TriggersStart /\ [][RejectedNext]_vars

\* the store holds an Active one-hour session of the local device, alone or
\* with an Active session of another device created after it; the clock
\* shows 23:20 and both sessions have time left
ExtendStart ==
  Init /\ now = DayLen - 80 /\ Len(sessions) >= 1 /\ sessions[1].status = "Active"

\* The user logs in and clicks Extend Session; no store call is rejected.
ExtendNext ==
  \/ Reliable(handleLogin)
  \/ Reliable(handleLoginList)
  \/ Reliable(InitStart)
  \/ \E i \in InitIds : Reliable(InitAdoptCost(i))
  \/ \E i \in InitIds : Reliable(InitList(i))
  \/ \E i \in InitIds : Reliable(InitCesCost(i))
  \/ \E f \in {NoId} \cup SessionIds : Reliable(RtFetched(f))
  \/ \E s \in SessionIds : Reliable(RtEvent(s))
  \/ Reliable(DeviceInfoLoaded)
  \/ Reliable(extendSession)
  \/ Reliable(ExtCost)
  \/ Reliable(ExtUpdate)
  \/ Reliable(ExtLog)

SpecExtend == ExtendStart /\ [][ExtendNext]_vars

\* the store holds no session, or one Active session of the local device
\* that ended 30 seconds ago
KioskStart ==
  /\ Init /\ now = DayLen - 19
  /\ sessions = << >> \/ (Len(sessions) = 1 /\ sessions[1].status = "Active")

\* Login, initSession, the poll, the Logout button, the auto-logout timer,
\* the reload and enable-kiosk-mode events of other collaborators; the
\* store rejects no call.
KioskNext ==
  \/ Reliable(handleLogin)
  \/ Reliable(handleLoginList)
  \/ Reliable(InitStart)
  \/ \E i \in InitIds : Reliable(InitAdoptCost(i))
  \/ \E i \in InitIds : Reliable(InitList(i))
  \/ \E i \in InitIds : Reliable(InitCesCost(i))
  \/ \E i \in InitIds : Reliable(InitActivate(i))
  \/ \E i \in InitIds : Reliable(CsDev(i))
  \/ \E i \in InitIds : Reliable(CsCost(i))
  \/ \E i \in InitIds : Reliable(CsCreate(i))
  \/ \E i \in InitIds : Reliable(CsLog(i))
  \/ Reliable(PollList)
  \/ Reliable(LogoutClick)
  \/ Reliable(LogoutList)
  \/ Reliable(LogoutClose)
  \/ Reliable(LogoutLog)
  \/ Reliable(LogoutDev)
  \/ LogoutTimerFire("init")
  \/ Reload
  \/ \E force \in BOOLEAN : KioskEvent(force)

SpecKiosk == KioskStart /\ [][KioskNext]_vars

\* The auto-login watcher: the terminal starts locked with the token of its
\* booking on the device; the token is replaced from outside while the
\* initial check, interval checks and realtime checks are under way.
MonitorStart == Init /\ now = MonitorTime /\ sessions = << >>

MonitorNext ==
  \/ \E token \in DeviceTokens \cup {NoToken} : DeviceTokenWritten(token)
  \/ IntervalCheck
  \/ AppRendered
  \/ \E i \in CheckIds : CheckGetOne(i)
  \/ \E i \in CheckIds : CheckClients(i)
  \/ \E i \in CheckIds : CheckUsers(i)
  \/ Reliable(handleLoginList)
  \/ Reliable(InitStart)

SpecMonitor == MonitorStart /\ [][MonitorNext]_vars

\* The watcher over time: the interval of a running effect keeps firing and
\* every call that was started goes on to its end; no store call is
\* rejected.  App renders again only when its own state changes, which
\* nothing obliges to happen.
LiveTokens == {"tok_old", "tok_sub", NoToken}

MonitorLiveNext ==
  \/ \E token \in LiveTokens : DeviceTokenWritten(token)
  \/ IntervalCheck
  \/ AppRendered
  \/ \E i \in CheckIds : Reliable(CheckGetOne(i))
  \/ \E i \in CheckIds : Reliable(CheckClients(i))
  \/ \E i \in CheckIds : Reliable(CheckUsers(i))
  \/ Reliable(handleLoginList)
  \/ Reliable(InitStart)

MonitorFairness ==
  /\ WF_vars(IntervalCheck)
  /\ \A i \in CheckIds : WF_vars(Reliable(CheckGetOne(i)))
  /\ \A i \in CheckIds : WF_vars(Reliable(CheckClients(i)))
  /\ \A i \in CheckIds : WF_vars(Reliable(CheckUsers(i)))
  /\ WF_vars(Reliable(handleLoginList))
  /\ WF_vars(Reliable(InitStart))

SpecMonitorLive == MonitorStart /\ [][MonitorLiveNext]_vars /\ MonitorFairness

\* The screenshot monitor: a user logs in, the monitor mounts, and
\* take_screenshot is set from outside before or after that.
ShotStart == Init /\ now = MonitorTime /\ sessions = << >>

\* (the login's session query has returned before the monitor does anything,
\* and the clock is watched from the mount on)
AfterLogin(A) == login.pc = "idle" /\ A

ShotNext ==
  \/ Reliable(handleLogin)
  \/ Reliable(handleLoginList)
  \/ Reliable(InitStart)
  \/ AfterLogin(ShotMount)
  \/ AfterLogin(ShotFetched)
  \/ AfterLogin(RequestScreenshot)
  \/ AfterLogin(ShotInterval)
  \/ AfterLogin(ShotClock /\ shot.mounted)
  \/ \E i \in ShotIds : AfterLogin(ShotGetOne(i))
  \/ \E i \in ShotIds : AfterLogin(ShotCapture(i))
  \/ \E i \in ShotIds : AfterLogin(ShotUpload(i))
  \/ \E i \in ShotIds : AfterLogin(ShotReset(i))
  \/ \E i \in ShotIds : AfterLogin(ShotErrorReset(i))

SpecShot == ShotStart /\ [][ShotNext]_vars

\* The expiry classifier on its own, for a clock and an out_time on days
\* around the month and year boundaries.
ExpiryDays == {0, 1, 29, 30, 31, 59, 60, 359, 360, 361, 389, 390, 720}
ExpiryTimesOfDay == {0, 100, DayLen - 1}
ExpiryInstants == {d * DayLen + m : d \in ExpiryDays, m \in ExpiryTimesOfDay}

ExpiryStart == Init /\ now = MonitorTime /\ sessions = << >>

ExpiryNext == \E t \in ExpiryInstants, end \in ExpiryInstants : Classify(t, end)

SpecExpiry == ExpiryStart /\ [][ExpiryNext]_vars

\* The store holds the Active session of the local device and nothing else;
\* the user logs in, the session is adopted, and sessions of other devices
\* are created meanwhile.  No store call is rejected.
FeedNext ==
  \/ Reliable(handleLogin)
  \/ Reliable(handleLoginList)
  \/ Reliable(InitStart)
  \/ \E i \in InitIds : Reliable(InitAdoptCost(i))
  \/ \E i \in InitIds : Reliable(InitList(i))
  \/ \E i \in InitIds : Reliable(InitCesCost(i))
  \/ \E f \in {NoId} \cup SessionIds : Reliable(RtFetched(f))
  \/ \E s \in SessionIds : Reliable(RtEvent(s))
  \/ Reliable(DeviceInfoLoaded)
  \/ SessionCreatedElsewhere

SpecFeed == Seed({"Active"}) /\ [][FeedNext]_vars

\* The application starts: App is rendered for the first time, with or
\* without a saved device_info and a saved login; DeviceTokenMonitor is not
\* rendered while deviceId is null.  Then the effect of App runs, the user
\* logs in and other collaborators ask for the lock.  No store call is
\* rejected.
UnmountedMonitor ==
  [MountedMonitor EXCEPT !.isMonitoring = FALSE,
                         !.checks = [i \in CheckIds |-> IdleCheck]]

AppStart ==
  /\ \E info \in {NoDevice, LocalDevice}, in \in BOOLEAN :
       Construct(FreshApp(info, in),
                 [user_login_info |-> in, client_app_login |-> FALSE],
                 UnmountedMonitor,
                 IF in THEN MountedSM(1) ELSE FreshSM(0), in)
  /\ now = DayLen - 19
  /\ sessions = << >> \/ (Len(sessions) = 1 /\ sessions[1].status = "Active")

StartNext ==
  \/ AppEffect
  \/ \E force \in BOOLEAN : KioskEvent(force)
  \/ Reliable(handleLogin)
  \/ Reliable(handleLoginList)
  \/ Reliable(InitStart)
  \/ \E i \in InitIds : Reliable(InitAdoptCost(i))
  \/ \E i \in InitIds : Reliable(InitList(i))
  \/ \E i \in InitIds : Reliable(InitCesCost(i))
  \/ \E i \in InitIds : Reliable(CsDev(i))
  \/ \E i \in InitIds : Reliable(CsCost(i))
  \/ \E i \in InitIds : Reliable(CsCreate(i))
  \/ \E i \in InitIds : Reliable(CsLog(i))

\* every step that can be taken is taken in the end
SpecStart == AppStart /\ [][StartNext]_vars /\ WF_vars(StartNext)

\* The user logs in and clicks Logout; the store may reject calls of the
\* Logout handler, and only those.
LogoutNext ==
  \/ Reliable(handleLogin)
  \/ Reliable(handleLoginList)
  \/ Reliable(InitStart)
  \/ \E i \in InitIds : Reliable(InitAdoptCost(i))
  \/ \E i \in InitIds : Reliable(InitList(i))
  \/ \E i \in InitIds : Reliable(InitCesCost(i))
  \/ \E i \in InitIds : Reliable(CsDev(i))
  \/ \E i \in InitIds : Reliable(CsCost(i))
  \/ \E i \in InitIds : Reliable(CsCreate(i))
  \/ \E i \in InitIds : Reliable(CsLog(i))
  \/ LogoutClick
  \/ LogoutList
  \/ LogoutClose
  \/ LogoutLog
  \/ LogoutDev

SpecLogout == KioskStart /\ [][LogoutNext]_vars

\* Calls of enableKioskMode and disableKioskMode by the handlers of App,
\* each going on from await to await in any order.
InterleaveStart == Init /\ now = DayLen - 19 /\ sessions = << >>

InterleaveNext ==
  \/ \E i \in KioskCallIds, kind \in {"enable", "disable"} : KioskCall(i, kind)
  \/ \E i \in KioskCallIds : KioskStep(i)

SpecInterleave == InterleaveStart /\ [][InterleaveNext]_vars

\* The session of the local device ran out half a minute ago, on the same
\* day: the user logs in, the tick announces the logout and sets the
\* 5-second timer, and the user clicks Extend Session before it fires.  No
\* store call is rejected.
GraceNext ==
  \/ Reliable(handleLogin)
  \/ Reliable(handleLoginList)
  \/ Reliable(InitStart)
  \/ \E i \in InitIds : Reliable(InitAdoptCost(i))
  \/ \E i \in InitIds : Reliable(InitList(i))
  \/ \E i \in InitIds : Reliable(InitCesCost(i))
  \/ Reliable(DeviceInfoLoaded)
  \/ Reliable(updateRemainingTime)
  \/ Reliable(extendSession)
  \/ Reliable(ExtCost)
  \/ Reliable(ExtUpdate)
  \/ Reliable(ExtLog)
  \/ \E k \in {"tick", "init"} : LogoutTimerFire(k)

SpecGrace == TeardownStart /\ [][GraceNext]_vars

\* ------------------------------------------------ the Pricing Resolver
\* The cost calculation on its own, for the rate group "g1" with every
\* price, duration, clock and content of happy_hours drawn from these sets.
QuotePrices == {0, 100, 200}
QuoteDurations == {0 - OneHour, 0, OneHour \div 2, OneHour, 2 * OneHour}
QuoteTimes == {DayLen + 10, DayLen + 150, 2 * DayLen + 10}

Window(st, day, from, to, pct, fixed) ==
  [group |-> "g1", status |-> st, days |-> day, start_time |-> from,
   end_time |-> to, discount_percentage |-> pct, fixed_rate |-> fixed]

QuoteWindows ==
  { Window("Active", 1, 0, 30, 20, 0),
    Window("Active", 1, 0, 30, 0, 60),
    Window("Active", 1, 60, 90, 50, 150),
    Window("Active", 2, 0, 30, 0, 150),
    Window("Inactive", 1, 0, 30, 50, 0),
    Window("Active", 1, 0, 30, 0, 0),
    Window("Active", 1, 0, 30, 150, 0) }

QuoteCollections ==
  {<< >>} \cup {<< w >> : w \in QuoteWindows}
          \cup {<< v, w >> : v \in QuoteWindows, w \in QuoteWindows}

Resolve(price, dur, windows, t, hhOk) ==
  /\ ~hist.quote.asked
  /\ hist' = [hist EXCEPT !.quote =
                [asked |-> TRUE, deviceId |-> LocalDevice, group |-> "g1",
                 price |-> price, dur |-> dur, windows |-> windows,
                 t |-> t, hhOk |-> hhOk, res |-> IF hhOk THEN "ok" ELSE "hh_fail",
                 result |-> calculateCost(price, dur, windows, "g1", t, hhOk)]]
  /\ UNCHANGED << now, sessions, logs, devices, app, ls, authStore, monitor, shot, sm, tick, init,
                  poll, login, logout, ext, initPending, logoutTimers, reloadTimers,
                  failures >>

\* one call of the resolver with the lookups that come before the
\* calculation: the device id may be missing, the device may have no group,
\* the group no price, and the store may reject a lookup.  The quote keeps
\* the price that was read: 0 when the resolver did not get to the group.
Lookup(deviceId, group, price, dur, t, res) ==
  /\ ~hist.quote.asked
  /\ hist' = [hist EXCEPT !.quote =
                [asked |-> TRUE, deviceId |-> deviceId, group |-> group,
                 price |-> IF deviceId = NoDevice \/ group = NoGroup \/ res = "fail"
                           THEN 0 ELSE price,
                 dur |-> dur, windows |-> HappyHours,
                 t |-> t, hhOk |-> res # "hh_fail", res |-> res,
                 result |-> fetchAndCalculate(deviceId, group, price, dur,
                                              HappyHours, t, res)]]
  /\ UNCHANGED << now, sessions, logs, devices, app, ls, authStore, monitor, shot, sm, tick, init,
                  poll, login, logout, ext, initPending, logoutTimers, reloadTimers,
                  failures >>

PricingStart == Init /\ now = DayLen + 10 /\ sessions = << >>

PricingNext ==
  \/ \E price \in QuotePrices, dur \in QuoteDurations, windows \in QuoteCollections,
        t \in QuoteTimes, hhOk \in BOOLEAN :
       Resolve(price, dur, windows, t, hhOk)
  \/ \E deviceId \in {NoDevice, LocalDevice}, group \in {NoGroup, "g1"},
        price \in QuotePrices, dur \in QuoteDurations, t \in QuoteTimes,
        res \in {"ok", "fail", "hh_fail"} :
       Lookup(deviceId, group, price, dur, t, res)

SpecPricing == PricingStart /\ [][PricingNext]_vars

\* ---------------------------------------------------------------- claims
\* C1: in every interleaving of the close triggers each session receives at
\* most one update that sets status to Closed and at most one session_logs
\* entry of type Closed.
C1_AtMostOneClose ==
  \A s \in SessionIds :
    /\ Count(hist.closedWrites, LAMBDA w : w[1] = s) <= 1
    /\ Count(logs, LAMBDA l : l.session_id = s /\ l.type = "Closed") <= 1

\* C2: Closed is terminal: once a stored session has status Closed no step
\* of the application changes any of its fields.
C2_ClosedIsTerminal ==
  [][\A s \in SessionIds :
       sessions[s].status = "Closed" => sessions'[s] = sessions[s]]_vars

\* C3: at every reachable state the store holds at most one session with a
\* status of Booked, Active, Occupied or Extended for a device.
C3_OneOpenSessionPerDevice ==
  \A d \in Devices : Cardinality(OpenFor(d)) <= 1

\* C4: while the stored session is a same-day expiry (its out_time has passed
\* and lies on the calendar day of the clock) neither the tick nor
\* initSession nor the poll writes status Closed to it, appends a Closed log
\* entry for it or releases its device.
C4_NoSameDayClose ==
  hist.sameDayClose \cap {"tick", "init", "poll"} = {}

\* the session was closed by a reconciliation (the tick or initSession)
Reconciled(s) ==
  \E k \in 1 .. Len(hist.closedWrites) :
    hist.closedWrites[k][1] = s /\ hist.closedWrites[k][2] \in {"tick", "init"}

\* no close flow is in flight
NoCloseInFlight ==
  /\ \A i \in TickIds : tick[i].pc \in {"idle", "done"}
  /\ \A i \in InitIds : init[i].pc \in {"idle", "done"}

\* C5: a session closed by reconciliation has status Closed and amount_paid =
\* session_total = total_amount = the finalCost the Pricing Resolver gives
\* for the span out_time - in_time (at some clock), with that result's
\* discount_amount and discount_rate; its Closed log entries carry that
\* amount; once the close flow has ended the device is Available with token
\* '' and client_record ''.
C5_CarriedOverClose ==
  \A s \in SessionIds :
    Reconciled(s) /\ sessions[s].status = "Closed" =>
      \E t \in Times :
        LET rec == sessions[s]
            cd == fetchDeviceGroupAndCalculateCost(
                    rec.device, rec.out_time - rec.in_time, t, "ok")
        IN /\ rec.amount_paid = cd.finalCost
           /\ rec.session_total = cd.finalCost
           /\ rec.total_amount = cd.finalCost
           /\ rec.discount_amount = cd.discountAmount
           /\ rec.discount_rate = cd.discountRate
           /\ \A k \in 1 .. Len(logs) :
                logs[k].session_id = s /\ logs[k].type = "Closed"
                  => logs[k].session_amount = cd.finalCost
           /\ NoCloseInFlight => devices[rec.device] = Released

\* C6: every expiry that the tick observes (remaining time <= 0 of the
\* locally active session) has its 'session ended' notification and its
\* 5-second logout timer, whatever was notified before.
C6_ExpiryAnnounced ==
  \A key \in hist.expired :
    Occurrences(hist.ended, key) >= 1 /\ Occurrences(hist.timers, key) >= 1

\* C7: for one expiry of a session the 'ended' notification is emitted once
\* and one logout timer is scheduled.
C7_EndedOnce ==
  /\ \A k \in 1 .. Len(hist.ended) : Occurrences(hist.ended, hist.ended[k]) <= 1
  /\ \A k \in 1 .. Len(hist.timers) : Occurrences(hist.timers, hist.timers[k]) <= 1

\* C8: an 'ending soon' notification is emitted only while the remaining
\* time lies in (0, 5 minutes], and a tick that finds the remaining time in
\* that window finds the notification emitted in this crossing.
C8_EndingSoonWindow ==
  /\ \A r \in hist.soon : 0 < r /\ r <= FiveMinutes
  /\ \A r \in hist.window : \E e \in hist.soon : r <= e /\ e <= FiveMinutes

\* C9: checkExistingSession returns a session only if its device is the
\* local device and its status is Booked, Active, Occupied or Extended;
\* createSession is called exactly when the store holds no such session and a
\* userId is present.
C9_DiscoveryFilter ==
  /\ \A f \in hist.found : f.device = LocalDevice /\ f.status \in OpenStatuses
  /\ \A c \in hist.creations : c.called <=> (~c.open /\ c.user)

\* C10: a write of status Active to a session with remaining time > 0 is
\* issued only when the stored status is Booked or Occupied (so none to a
\* session that is Active or Extended).
C10_ActiveOnlyFromBookedOrOccupied ==
  \A w \in hist.activeWrites : w.valid => w.stored \in {"Booked", "Occupied"}

\* C11: after n successful calls of extendSession on a session that had
\* out_time = in_time + 1 hour, and with no call in flight, the stored
\* out_time is in_time + (1 + n) hours, duration is out_time - in_time in
\* minutes, status is Extended, session_total and total_amount are the
\* finalCost of the (1 + n)-hour span (at some clock), and the session has
\* n Extended log entries, all with amount 0.
C11_ExtendedByWholeHours ==
  \A s \in SessionIds :
    LET n == Occurrences(hist.extended, s)
        rec == sessions[s]
    IN n > 0 /\ ext.pc = "idle" =>
         /\ rec.out_time = rec.in_time + (1 + n) * OneHour
         /\ rec.duration = (rec.out_time - rec.in_time) \div OneMinute
         /\ rec.status = "Extended"
         /\ \E t \in Times :
              LET cd == fetchDeviceGroupAndCalculateCost(
                          rec.device, (1 + n) * OneHour, t, "ok")
              IN rec.session_total = cd.finalCost /\ rec.total_amount = cd.finalCost
         /\ Count(logs, LAMBDA l : l.session_id = s /\ l.type = "Extended") = n
         /\ \A k \in 1 .. Len(logs) :
              logs[k].session_id = s /\ logs[k].type = "Extended"
                => logs[k].session_amount = 0

C13_DeviceLookupFailure ==
  \A c \in hist.created :
    c.devFailed =>
      /\ c.rec.device = NoDevice
      /\ c.rec.session_total = 0 /\ c.rec.total_amount = 0
      /\ c.rec.discount_amount = 0 /\ c.rec.discount_rate = 0

\* C14: two triggers that examine the same stored session at the same clock
\* leave it with the same fields.
C14_TriggersAgree ==
  \A a, b \in hist.reconciled :
    a.before = b.before /\ a.at = b.at => a.after = b.after

\* a run of initSession starts in this step
Starts(i) == init[i].pc = "idle" /\ init'[i].pc # "idle"

\* C15: a run of initSession that starts with activeSession true and session
\* data in the props adopts that session (id, in_time, out_time, active),
\* goes on to the cost calculation only, and neither it nor its later steps
\* query the session list, create a session or write to the session record.
C15_PropsAdopted ==
  [][\A i \in InitIds :
       /\ (Starts(i) /\ app.hasActiveSession /\ app.activeSessionData.id # NoId) =>
            /\ sm'.sessionId = app.activeSessionData.id
            /\ sm'.inTime = app.activeSessionData.rec.in_time
            /\ sm'.outTime = app.activeSessionData.rec.out_time
            /\ sm'.isSessionActive
            /\ init'[i].pc \in {"adoptCost", "done"}
            /\ sessions' = sessions
       /\ (init[i].pc = "adoptCost" /\ init'[i] # init[i]) =>
            init'[i].pc = "done" /\ sessions' = sessions /\ logs' = logs]_vars

C15_AdoptedFromProps ==
  /\ app.hasActiveSession
  /\ sm.sessionId = app.activeSessionData.id /\ sm.sessionId # NoId
  /\ sm.outTime = app.activeSessionData.rec.out_time
  /\ \E i \in InitIds : init[i].pc = "adoptCost"

\* C16: a flow whose session update was rejected appends no Closed or
\* Extended log entry, releases no device and leaves the local out_time and
\* active flag as they were.
C16_RejectedUpdateStops == hist.afterRejected = {}

\* C17: a 5-second logout timer fires only while the SessionManager that
\* set it is mounted: once the component is torn down its timer callback
\* changes nothing.
C17_NoCallbackAfterTeardown ==
  [][hist'.autoLogouts > hist.autoLogouts => sm.mounted]_vars

\* the windows of a quote that are active for the group on the weekday and at
\* the time of its clock, in query order
MatchingWindows(q) ==
  SelectSeq(q.windows, LAMBDA w :
    /\ w.group = "g1" /\ w.status = "Active" /\ w.days = getDay(q.t)
    /\ w.start_time <= minuteOfDay(q.t) /\ minuteOfDay(q.t) <= w.end_time)

\* the duration the calculation works with: the given one when positive, else 1 hour
EffectiveDuration(q) == IF q.dur > 0 THEN q.dur ELSE OneHour

\* the calculation of the quote applied a window: the query was answered and
\* a window matches
Applied(q) == q.asked /\ q.price > 0 /\ q.hhOk /\ Len(MatchingWindows(q)) > 0

\* C18: for a group with a price and no active window matching the weekday
\* and time, the calculation returns baseCost = price * d', finalCost =
\* baseCost, discountAmount 0, discountRate 0 and happyHourApplied false, d'
\* being the duration when it is positive and 1 hour otherwise.
C18_NoWindowNoDiscount ==
  LET q == hist.quote
  IN q.asked /\ q.price > 0 /\ Len(MatchingWindows(q)) = 0 =>
       /\ q.result.baseCost * OneHour = q.price * EffectiveDuration(q)
       /\ q.result.finalCost = q.result.baseCost
       /\ q.result.discountAmount = 0
       /\ q.result.discountRate = 0
       /\ ~q.result.happyHourApplied

C18_FallbackDuration ==
  LET q == hist.quote
  IN q.asked /\ q.price = 200 /\ q.dur = 0 /\ Len(MatchingWindows(q)) = 0
       /\ Len(q.windows) = 2 /\ q.result.baseCost = 200

\* C19: when the applied window has discount_percentage p > 0 the
\* calculation returns discountAmount = baseCost * p / 100, finalCost =
\* baseCost - discountAmount and discountRate = p; price 100, 2 hours and
\* p = 20 give baseCost 200, discountAmount 40, finalCost 160.
C19_PercentageDiscount ==
  LET q == hist.quote
  IN Applied(q) /\ MatchingWindows(q)[1].discount_percentage > 0 =>
       LET p == MatchingWindows(q)[1].discount_percentage
           r == q.result
       IN /\ r.baseCost * OneHour = q.price * EffectiveDuration(q)
          /\ r.discountAmount * 100 = r.baseCost * p
          /\ r.finalCost = r.baseCost - r.discountAmount
          /\ r.discountRate = p
          /\ r.happyHourApplied
          /\ (q.price = 100 /\ q.dur = 2 * OneHour /\ p = 20) =>
               r.baseCost = 200 /\ r.discountAmount = 40 /\ r.finalCost = 160

C19_TwentyPercentOfTwoHours ==
  LET q == hist.quote
  IN Applied(q) /\ q.price = 100 /\ q.dur = 2 * OneHour
       /\ MatchingWindows(q)[1].discount_percentage = 20
       /\ q.result.finalCost = 160

\* C20: when the applied window has no positive discount_percentage and
\* fixed_rate f > 0 the calculation returns finalCost = f * duration (the
\* duration the calculation works with), discountAmount = baseCost -
\* finalCost and discountRate = discountAmount / baseCost * 100 (0 when
\* baseCost is 0); price 100, 2 hours and f = 60 give finalCost 120,
\* discountAmount 80, discountRate 40.
C20_FixedRateDiscount ==
  LET q == hist.quote
  IN Applied(q) /\ MatchingWindows(q)[1].discount_percentage <= 0
       /\ MatchingWindows(q)[1].fixed_rate > 0 =>
       LET f == MatchingWindows(q)[1].fixed_rate
           r == q.result
       IN /\ r.finalCost * OneHour = f * EffectiveDuration(q)
          /\ r.discountAmount = r.baseCost - r.finalCost
          /\ IF r.baseCost = 0 THEN r.discountRate = 0
             ELSE r.discountRate * r.baseCost = r.discountAmount * 100
          /\ r.happyHourApplied
          /\ (q.price = 100 /\ q.dur = 2 * OneHour /\ f = 60) =>
               r.finalCost = 120 /\ r.discountAmount = 80 /\ r.discountRate = 40

C20_SixtyPerHourForTwoHours ==
  LET q == hist.quote
  IN Applied(q) /\ q.price = 100 /\ q.dur = 2 * OneHour
       /\ MatchingWindows(q)[1].discount_percentage = 0
       /\ MatchingWindows(q)[1].fixed_rate = 60
       /\ q.result.finalCost = 120

\* C21: whatever the list of windows, the result of the calculation is the
\* one the first window in query order with start_time <= now <= end_time
\* gives on its own: its percentage, else its fixed rate, else no discount at
\* all; the windows after it change nothing, so at most one discount is applied.
C21_FirstMatchingWindowDecides ==
  LET q == hist.quote
  IN Applied(q) =>
       LET w == MatchingWindows(q)[1]
           baseCost == (q.price * EffectiveDuration(q)) \div OneHour
           r == q.result
       IN /\ r = calculateCost(q.price, q.dur, << w >>, "g1", q.t, TRUE)
          /\ IF w.discount_percentage > 0
             THEN r.discountRate = w.discount_percentage
                  /\ r.finalCost * 100 = baseCost * (100 - w.discount_percentage)
             ELSE IF w.fixed_rate > 0
             THEN r.finalCost * OneHour = w.fixed_rate * EffectiveDuration(q)
             ELSE r.finalCost = baseCost /\ ~r.happyHourApplied

\* two windows match, the first with a percentage and the second with a
\* fixed rate, and the percentage was applied
C21_SecondMatchIgnored ==
  LET q == hist.quote
  IN Applied(q) /\ Len(MatchingWindows(q)) = 2
       /\ MatchingWindows(q)[1].discount_percentage = 20
       /\ MatchingWindows(q)[2].fixed_rate = 60
       /\ MatchingWindows(q)[2].discount_percentage = 0
       /\ q.price = 100 /\ q.dur = OneHour
       /\ q.result.finalCost = 80

\* C22: for every price >= 0, every duration and every window, whatever
\* its discount_percentage or fixed_rate, the finalCost the calculation
\* returns is not negative.
C22_FinalCostNotNegative ==
  hist.quote.asked => hist.quote.result.finalCost >= 0

\* a lookup of the resolver failed: no device id, a device without a group,
\* a group without a price, or a rejected store call
LookupFailed(q) ==
  q.deviceId = NoDevice \/ q.group = NoGroup \/ q.price = 0 \/ q.res # "ok"

\* C23: on any lookup failure (no device id, device without a group, group
\* without a price, a store error on the device, group or discount-window
\* lookup) the resolver returns the zero-cost result: baseCost, finalCost,
\* discountRate and discountAmount 0 and happyHourApplied false.
C23_LookupFailureGivesZeroCost ==
  LET q == hist.quote
  IN q.asked /\ LookupFailed(q) => q.result = ZeroCost

\* the terminal is unlocked: the window is the normal one and no key-blocking
\* handler is registered
Unlocked(a) == ~a.fullScreen /\ a.keydownHandlers = 0

\* a step in which the poll calls onSessionStateChange: at the end of
\* checkForActiveSessions, after its list query or after its update
SessionStateChanged ==
  \/ poll.pc = "idle" /\ poll'.pc = "idle" /\ poll'.runs = poll.runs + 1
  \/ poll.pc = "update" /\ poll'.pc = "idle" /\ reloadTimers' >= reloadTimers

\* C24: the lock is a function of the session-active signal alone: after
\* every session-state-changed callback with isActive = true the terminal is
\* unlocked, after every one with isActive = false it is locked, whatever
\* the login flag.
C24_LockFollowsSessionSignal ==
  [][SessionStateChanged =>
       IF app'.hasActiveSession THEN Unlocked(app') ELSE Locked(app')]_vars

\* no handler is in flight: the login, the poll, the logout, the runs of
\* initSession, the close flows and extendSession are over, no render is
\* waiting for its effect and no timer is pending
Quiescent ==
  /\ login.pc = "idle" /\ poll.pc = "idle" /\ logout.pc = "idle" /\ ext.pc = "idle"
  /\ \A i \in InitIds : init[i].pc \in {"idle", "done"}
  /\ \A i \in TickIds : tick[i].pc \in {"idle", "done"}
  /\ ~initPending
  /\ logoutTimers = [tick |-> 0, init |-> 0] /\ reloadTimers = 0

\* C25: in every quiescent state with no open session of the device the
\* terminal is locked; no login or error path leaves it unlocked without an
\* open session.
C25_LockedWithoutOpenSession ==
  Quiescent /\ OpenFor(LocalDevice) = {} => Locked(app)

\* the fields of App that make up the lock
KioskState(a) ==
  << a.isKioskMode, a.fullScreen, a.keyboardHandler, a.keydownHandlers >>

\* a step that asks for the lock: an enable-kiosk-mode event (of the session
\* code, of the Logout button or of another collaborator), or
\* enableKioskMode called for a session-state change to inactive
LockRequested ==
  \/ hist'.kioskRequests > hist.kioskRequests
  \/ hist'.lockRequests # hist.lockRequests
  \/ SessionStateChanged /\ ~app'.hasActiveSession

C27_NoAutoLoginWithoutUserId ==
  \A k \in 1 .. Len(hist.autoLogins) :
    TokenInfo[hist.autoLogins[k].token].claims # NoClaims

\* both decoding paths have turned a token without a user id away, and a
\* token with one has logged in
C27_TurnedAwayOnBothPaths ==
  /\ \E r \in hist.failedChecks :
       r.reason = "no_user_id" /\ TokenInfo[r.token].payload = "json"
  /\ \E r \in hist.failedChecks :
       r.reason = "no_user_id" /\ TokenInfo[r.token].payload = "empty"
  /\ Len(hist.autoLogins) > 0

\* C28: when a token check ends in failure (the token fails validation, the
\* payload names no user, the user is in neither collection, a lookup is
\* rejected) the auth store holds the token and record it held before the
\* check.
C28_FailedCheckKeepsAuthStore ==
  \A r \in hist.failedChecks : r.alone => r.after = r.before

\* a step of a token check that is under way
MonitorStep ==
  \E i \in CheckIds :
    /\ monitor.checks[i].pc \in {"getOne", "clients", "users"}
    /\ monitor'.checks[i] # monitor.checks[i]

\* C29: no step of the watcher creates or updates a record of 'sessions' or
\* 'devices', the call of onAutoLogin included.
C29_MonitorWritesNothing ==
  [][MonitorStep => sessions' = sessions /\ devices' = devices]_vars

\* the watcher has logged a user in from the device's token
C29_AutoLoginDone ==
  /\ Len(hist.autoLogins) > 0
  /\ app.isLoggedIn
  /\ \A i \in CheckIds : monitor.checks[i].pc \in {"idle", "done"}

\* C30: onAutoLogin is called only for a non-empty device token that differs
\* from the last token seen and passes validateToken, and at most once for a
\* token that stays on the device, however the initial check, the interval
\* and the realtime callback interleave.
C30_AutoLoginOncePerToken ==
  /\ \A k \in 1 .. Len(hist.autoLogins) :
       /\ hist.autoLogins[k].token # NoToken
       /\ hist.autoLogins[k].token # hist.autoLogins[k].last
       /\ hist.autoLogins[k].valid
  /\ \A j, k \in 1 .. Len(hist.autoLogins) :
       j < k => \/ hist.autoLogins[j].token # hist.autoLogins[k].token
                \/ hist.autoLogins[j].epoch # hist.autoLogins[k].epoch


\* the token put on the device by write n is still there and no
\* devices.getOne of the watcher has come after the write
TokenWaiting(n) ==
  /\ hist.tokenWrites = n
  /\ devices[LocalDevice].token # NoToken
  /\ hist.tokenRead < n

\* C31: while the watcher is mounted, every change of the device's token to
\* a non-empty value is eventually read by a check of the watcher, also
\* after an earlier token was seen or removed (as long as the watcher has a
\* call left to make).
C31_TokenEventuallyChecked ==
  \A n \in 1 .. MaxTokenWrites :
    TokenWaiting(n) ~> (~TokenWaiting(n) \/ ~CanStartCheck(monitor))


\* C32: every capture attempt that fails in the capture or in the upload
\* ends with the update of take_screenshot to false; when the store takes
\* the update the flag is false.
C32_FailedShotResetsFlag ==
  \A r \in hist.shots : r.failed /\ r.resetOk => ~r.flagAfter

\* a capture failed and an upload was rejected, and the flag is off again
C32_FlagResetAfterFailures ==
  /\ Cardinality({r \in hist.shots : r.failed /\ r.resetOk}) >= 2
  /\ failures > 0
  /\ ~shot.flag

\* C33: any two capture attempts that pass the cooldown test start at least
\* SCREENSHOT_COOLDOWN apart, whether they come from the realtime update, from
\* the poll or after a failed capture.
C33_StartsCooldownApart ==
  \A j, k \in 1 .. Len(hist.shotStarts) :
    j < k => hist.shotStarts[k] - hist.shotStarts[j] >= SCREENSHOT_COOLDOWN


\* C34: when the clock has reached out_time, isYesterday is false exactly
\* when both lie on the same calendar day and true exactly when out_time
\* lies on an earlier day, in whatever month or year.
C34_IsYesterdayIffEarlierDay ==
  LET q == hist.expiry
  IN q.asked /\ q.t >= q.end =>
       /\ q.isYesterday = ~SameCalendarDay(q.t, q.end)
       /\ q.isYesterday = ((q.end \div DayLen) < (q.t \div DayLen))

\* an out_time on the last day of a year and a clock on the first day of the
\* next: the day of the month and the month are both smaller
C34_AcrossTheYear ==
  LET q == hist.expiry
  IN /\ q.asked /\ q.isYesterday
     /\ q.end \div DayLen = 359 /\ q.t \div DayLen = 360


\* C35: a realtime update of the tracked session that carries an open status
\* leaves the session locally active: once extendSession has succeeded and
\* every realtime event of the store's writes has been processed, with the
\* tracked session at the head of the hook's data, isSessionActive is true.
C35_ExtendedStaysActive ==
  /\ sm.mounted /\ sm.sessionId # NoId
  /\ ext.pc = "idle" /\ (\E k \in DOMAIN hist.extended : hist.extended[k] = sm.sessionId)
  /\ sm.subscribed /\ sm.rtPending = {} /\ sm.rtLast = sessions
  /\ Len(sm.sessionData) > 0 /\ sm.sessionData[1].id = sm.sessionId
  /\ sessions[sm.sessionId].status \in OpenStatuses
  /\ now < sessions[sm.sessionId].out_time
  => sm.isSessionActive


\* the data of the hook is within its filter id = sessionId
WithinFilter(s) ==
  \A k \in 1 .. Len(s.sessionData) : s.sessionData[k].id = s.sessionId

\* C36: the data of useRealtimePb holds only records that satisfy the hook's
\* filter: with the fetch of the filter id = sessionId resolved and the
\* subscription set up, no step (a realtime event, whatever record it is
\* about) puts a record other than the tracked session into sessionData.
C36_DataStaysWithinFilter ==
  [][(/\ sm.mounted /\ sm.sessionId # NoId
      /\ sm.subscribed /\ sm.rtPending = {}
      /\ WithinFilter(sm)
      /\ sm'.mounted /\ sm'.gen = sm.gen /\ sm'.sessionId = sm.sessionId)
     => WithinFilter(sm')]_vars


\* C37: when the application starts, its initialisation runs: a saved
\* device id becomes App's deviceId (so that the poller, the watcher and the
\* screenshot monitor are rendered), and without saved device info the
\* registration screen is shown.
C37_StartAdoptsDevice ==
  app.listening ~>
    (IF app.parsedDeviceInfo # NoDevice
     THEN app.deviceId = app.parsedDeviceInfo
     ELSE app.showDeviceRegistration)


\* C38: a manual logout always ends with the local login cleared (auth store
\* cleared, isLoggedIn false, user_login_info removed) and a forced
\* enable-kiosk-mode request dispatched, whether or not the session query,
\* the close, the log append or the device release is rejected.
C38_ManualLogoutAlwaysClears ==
  [][(/\ logout.pc # "idle" /\ logout'.pc = "idle"
      /\ ~(reloadTimers > 0 /\ reloadTimers' = 0))
     => /\ authStore' = NoAuth
        /\ ~app'.isLoggedIn
        /\ ~ls'.user_login_info
        /\ hist'.kioskRequests = hist.kioskRequests + 1]_vars

\* a logout has ended although the store rejected one of its calls
C38_LoggedOutAfterRejection ==
  /\ logout.runs > 0 /\ logout.pc = "idle"
  /\ failures > 0
  /\ ~app.isLoggedIn /\ ~ls.user_login_info /\ authStore = NoAuth
  /\ hist.kioskRequests > 0


\* the window, the flag and the key-blocking handler are all of one mode
KioskConsistent(a, kind) ==
  IF kind = "enable"
  THEN a.fullScreen /\ a.size = "screen" /\ a.isKioskMode /\ a.keydownHandlers > 0
  ELSE ~a.fullScreen /\ a.size = "fixed" /\ ~a.isKioskMode /\ a.keydownHandlers = 0

\* C39: when calls of enableKioskMode and disableKioskMode interleave at
\* their awaits, the state they leave when all have ended is the one of the
\* call requested last: window, isKioskMode and key-blocking handler.
C39_LastKioskCallWins ==
  /\ Len(hist.kioskCalls) >= 2
  /\ \A i \in KioskCallIds : app.calls[i].pc \in {"idle", "done"}
  => KioskConsistent(app, hist.kioskCalls[Len(hist.kioskCalls)])


\* C40: if the user extends the session during the 5-second delay that
\* follows an expiry, so that the remaining time is positive again when the
\* delay ends, the pending auto-logout neither logs the user out nor locks
\* the terminal.
C40_ExtensionCancelsAutoLogout ==
  [][(/\ \E k \in {"tick", "init"} : logoutTimers'[k] < logoutTimers[k]
      /\ sm.mounted /\ sm.isSessionActive /\ sm.outTime > now
      /\ \E n \in DOMAIN hist.extended : hist.extended[n] = sm.sessionId)
     => /\ ls' = ls /\ authStore' = authStore
        /\ app' = app /\ reloadTimers' = reloadTimers]_vars

=============================================================================
